---------------------------- MODULE Spec2Model ----------------------------
(***************************************************************************)
(* A state-machine model of the Auth Service of the traffic-management     *)
(* backend (services/auth-service): the credential lifecycle of            *)
(* AuthService (login, lockout, refresh, logout, logout-all), the          *)
(* authentication gates of app/dependencies/auth.py, and the role /        *)
(* permission / user-role management of RoleManagementService and          *)
(* UserService.                                                            *)
(*                                                                         *)
(* The database is the state: one variable per table.  Every service       *)
(* method is one action; it ends either in its commit (the primed tables)  *)
(* or in an HTTP error before the commit (tables unchanged, the session    *)
(* is closed by get_db and its pending writes are discarded).  The         *)
(* outcome of the last request is kept in resp.                            *)
(*                                                                         *)
(* Columns no modelled operation reads and no property mentions (email,    *)
(* phone, department, notes, last_login, ip_address, user_agent, role and  *)
(* permission descriptions, created_at/updated_at) are left out.           *)
(***************************************************************************)
EXTENDS Integers, Sequences, FiniteSets, TLC

\* ------------------------------------------------------------------ bounds
\* The clock advances at most MaxTicks times.
MaxTicks == 2
\* failed_login_attempts is an unbounded counter; wrong-password logins are
\* cut off once it has reached MaxFailed (above the lock threshold).
MaxFailed == 6
\* The refresh_tokens table holds at most MaxTokens rows.
MaxTokens == 2
\* Role ids are handed out up to MaxRoleId.
MaxRoleId == 3
\* The tables that only grow hold at most MaxRows rows each.
MaxRows == 3
\* A two-step login begins while its user has had fewer than MaxAttempts
\* wrong-password answers.
MaxAttempts == 6
\* At most MaxScopes scoped_context blocks are nested.
MaxScopes == 2
\* At most MaxSinks audit sinks are registered.
MaxSinks == 2
\* The lpr_events table holds at most MaxEvents rows.
MaxEvents == 2
\* At most MaxClients requests are in flight at once.
MaxClients == 2

\* ------------------------------------------------------- program constants
\* auth_service.py:359  "if user.failed_login_attempts >= 5"
LOCK_THRESHOLD == 5
\* auth_service.py:360  timedelta(minutes=30)
LOCK_MINUTES == 30
\* settings.py:37
REFRESH_TOKEN_EXPIRE_DAYS == 7
\* settings.py:36
ACCESS_TOKEN_EXPIRE_MINUTES == 525600

\* The clock counts minutes.
MinutesPerDay == 24 * 60
RefreshLifetime == REFRESH_TOKEN_EXPIRE_DAYS * MinutesPerDay

\* ---------------------------------------------------------------- helpers
\* Optional values: None, or Some(x).
None == <<>>
Some(x) == <<x>>
IsSome(o) == o # <<>>
Val(o) == o[1]

RECURSIVE SeqToSet(_)
SeqToSet(s) == IF s = <<>> THEN {} ELSE {Head(s)} \cup SeqToSet(Tail(s))

\* Sequences over S of length at most n.
SeqsUpTo(S, n) == UNION {[1..k -> S] : k \in 0..n}

UserIds == {1, 2}
\* User i is registered under UsernameOf(i); nobody is registered under
\* GhostName.
GhostName == "ghost"
UsernameOf(i) == IF i = 1 THEN "admin" ELSE "bob"
EmailOf(i) == IF i = 1 THEN "admin@traffic-system.local" ELSE "bob@example.com"
Usernames == {UsernameOf(i) : i \in UserIds} \cup {GhostName}
Passwords == {"Admin123", "Wrong4567"}

VARIABLES
    now,                    \* datetime.utcnow(), in minutes
    ticks,                  \* how often the clock has advanced (bounds the run)
    users,                  \* table users: id -> row
    refresh_tokens,         \* table refresh_tokens: sequence of rows, id = index
    client_access,          \* the access token each user's client holds (latest issued)
    roles,                  \* table roles: id -> row
    next_role_id,           \* AUTO_INCREMENT of roles
    permissions,            \* table permissions: id -> row
    role_permissions,       \* table role_permissions: set of <<role_id, permission_id>>
    services,               \* table services: id -> row
    role_service_accesses,  \* table role_service_accesses: set of rows
    user_roles,             \* table user_roles: set of rows
    resp,                   \* outcome of the last request
    inflight,               \* requests past their uniqueness pre-check, not yet committed
    cameras,                \* table anpr_cameras: id -> row
    events,                 \* table lpr_events with its sub-event rows: id -> row
    correlation_header,     \* RequestLoggingMiddleware.correlation_header, lower-cased
    log_context,            \* _LOG_CONTEXT: key -> value
    request,                \* the request inside dispatch, if any
    outcome,                \* what dispatch last handed back: a response or an exception
    sinks,                  \* _sinks, in registration order
    delivered,              \* the sink calls of the last record_event: <<sink, event>>
    sink_error,             \* the exception the last record_event let out, if any
    login_failures,         \* wrong-password answers given by two-step logins: user id -> count
    scopes                  \* open scoped_context blocks: the tokens of their ContextVar.set calls,
                            \* the calls made inside the innermost one, how the last one ended

authTables == <<users, refresh_tokens>>
rbacTables == <<roles, next_role_id, permissions, role_permissions, services,
                role_service_accesses, user_roles>>
clock == <<now, ticks>>
vars == <<now, ticks, users, refresh_tokens, client_access, roles, next_role_id,
          permissions, role_permissions, services, role_service_accesses,
          user_roles, resp, inflight, cameras,
          events, correlation_header, log_context, request, outcome, sinks,
          delivered, sink_error, login_failures, scopes>>
\* What the auth and role operations never touch
\* The shared library's state: middleware, logging context and audit sinks
shared == <<correlation_header, log_context, request, outcome, sinks, delivered,
            sink_error>>
side == <<inflight, cameras, events, shared, login_failures, scopes>>
\* The auth service's tables and clock, which the other operations never touch
core == <<now, ticks, users, refresh_tokens, client_access, roles, next_role_id,
          permissions, role_permissions, services, role_service_accesses,
          user_roles>>

\* --------------------------------------------------- security utilities
\* app/utils/security.py is not part of the reviewed source; these follow the
\* interface the specification gives (section 4.7).

\* get_password_hash: a salted hash, modelled as a tagged value that only
\* verify_password can match.
get_password_hash(plain) == <<"hash", plain>>
verify_password(plain, hashed) == hashed = <<"hash", plain>>

\* A signed token is the claim map it carries; jti makes every issued refresh
\* token string distinct (the column is unique).  Garbage is a string no
\* signature check accepts.
Garbage == [type |-> "garbage", sub |-> 0, exp |-> 0, jti |-> 0]
create_access_token(sub) ==
    [type |-> "access", sub |-> sub, exp |-> now + ACCESS_TOKEN_EXPIRE_MINUTES, jti |-> 0]
create_refresh_token(sub, jti) ==
    [type |-> "refresh", sub |-> sub, exp |-> now + RefreshLifetime, jti |-> jti]

\* decode_token: the claim map, or None on a bad signature or an expired
\* token.  Whether a token is already expired at the very instant exp is
\* the JWT library's choice, so both outcomes are possible there.
decode_token(token) ==
    IF token.type = "garbage" \/ now > token.exp THEN {None}
    ELSE IF now = token.exp THEN {None, Some(token)}
    ELSE {Some(token)}

\* ------------------------------------------------------------ responses
AuditN(action, status, n) == Some([action |-> action, status |-> status, n |-> n])
Audit(action, status) == AuditN(action, status, 0)
Resp(op, status, detail, access, refresh, audit) ==
    [op |-> op, status |-> status, detail |-> detail,
     access_token |-> access, refresh_token |-> refresh, audit |-> audit]
Fail(op, status, detail, audit) == Resp(op, status, detail, None, None, audit)
Ok(op, status, audit) == Resp(op, status, "", None, None, audit)

\* ----------------------------------------------------------- the models
\* User.has_role
has_role(uid, role_name) ==
    \E l \in user_roles : l.user_id = uid /\ l.role_id \in DOMAIN roles
                          /\ roles[l.role_id].name = role_name

has_permission_ActiveOnly(uid, permission_name) ==
    \E l \in user_roles :
        /\ l.user_id = uid
        /\ l.role_id \in DOMAIN roles
        /\ roles[l.role_id].is_active
        /\ \E id \in DOMAIN permissions :
              /\ <<l.role_id, id>> \in role_permissions
              /\ permissions[id].name = permission_name
              /\ permissions[id].is_active
\* User.has_permission: some role of the user carries a permission of that
\* name.  The seeded permissions are named "resource:action", so full_name
\* and name coincide and the model keeps one of them.
has_permission(uid, permission_name) ==
    \E l \in user_roles :
        /\ l.user_id = uid
        /\ l.role_id \in DOMAIN roles
        /\ \E id \in DOMAIN permissions :
              /\ <<l.role_id, id>> \in role_permissions
              /\ permissions[id].name = permission_name

\* RefreshToken.is_expired
is_expired_Strict(row) == now > row.expires_at
is_expired(row) == now >= row.expires_at

\* ---------------------------------------------------------------- Init
\* The database after the seed command's admin account (superuser, role
\* super_admin) and one registration; of the seeded system roles the model
\* keeps super_admin, next to it a custom role made with create_role.
\* The tables and the clock apart from roles, permissions and their links
InitOther ==
    /\ now = 0
    /\ ticks = 0
    /\ users = [i \in UserIds |->
                 [username |-> UsernameOf(i),
                  email |-> EmailOf(i),
                  hashed_password |-> get_password_hash("Admin123"),
                  full_name |-> None,
                  is_active |-> TRUE,
                  is_verified |-> (i = 1),
                  is_superuser |-> (i = 1),
                  failed_login_attempts |-> 0,
                  locked_until |-> None,
                  password_changed_at |-> Some(0)]]
    /\ refresh_tokens = <<>>
    /\ client_access = [i \in UserIds |-> None]
    /\ services = (1 :> [name |-> "ANPR", key |-> "anpr", is_active |-> TRUE]
                   @@ 2 :> [name |-> "Camera", key |-> "camera", is_active |-> FALSE])
    /\ resp = Ok("init", 0, None)
    /\ inflight = {}
    /\ cameras = <<>>
    /\ events = <<>>
    /\ login_failures = [i \in UserIds |-> 0]
    /\ scopes = [tokens |-> <<>>, inside |-> {}, raised |-> FALSE]

InitTables ==
    /\ InitOther
    /\ roles = (1 :> [name |-> "super_admin", is_active |-> TRUE, is_system |-> TRUE]
                @@ 2 :> [name |-> "analyst", is_active |-> TRUE, is_system |-> FALSE])
    /\ next_role_id = 3
    /\ permissions = (1 :> [name |-> "role:write", is_active |-> TRUE]
                      @@ 2 :> [name |-> "anpr:read", is_active |-> TRUE])
    /\ role_permissions = {<<1, 1>>, <<1, 2>>, <<2, 2>>}
    /\ role_service_accesses =
         {[role_id |-> 1, service_id |-> 1, access_level |-> "manage", is_active |-> TRUE]}
    /\ user_roles = {[user_id |-> 1, role_id |-> 1, assigned_by |-> None]}

\* The context an unset _LOG_CONTEXT reads as
EmptyContext == [k \in {} |-> ""]

Init ==
    /\ InitTables
    /\ correlation_header = "x-correlation-id"
    /\ log_context = EmptyContext
    /\ request = None
    /\ outcome = None
    /\ sinks = <<>>
    /\ delivered = <<>>
    /\ sink_error = None

\* ------------------------------------------------------------- the clock
Tick(d) ==
    /\ ticks < MaxTicks
    /\ now' = now + d
    /\ ticks' = ticks + 1
    /\ UNCHANGED <<users, refresh_tokens, client_access, rbacTables, resp>>

\* ------------------------------------------------------------ AuthService
\* AuthService._handle_failed_login: the user row it commits.
handle_failed_login_LockOnce(user) ==
    LET attempts == user.failed_login_attempts + 1
    IN [user EXCEPT !.failed_login_attempts = attempts,
                    !.locked_until = IF attempts = LOCK_THRESHOLD
                                     THEN Some(now + LOCK_MINUTES)
                                     ELSE @]
handle_failed_login_NoLock(user) ==
    [user EXCEPT !.failed_login_attempts = @ + 1]
handle_failed_login(user) ==
    LET attempts == user.failed_login_attempts + 1
    IN [user EXCEPT !.failed_login_attempts = attempts,
                    !.locked_until = IF attempts >= LOCK_THRESHOLD
                                     THEN Some(now + LOCK_MINUTES)
                                     ELSE @]

\* "user.locked_until and user.locked_until > datetime.utcnow()" in login
login_locked_Never(user) == FALSE
login_locked(user) == IsSome(user.locked_until) /\ Val(user.locked_until) > now

\* The user row with the given username (usernames are unique), or none.
user_by_username(username) == {i \in DOMAIN users : users[i].username = username}

\* AuthService.login
Login(username, password) ==
    LET found == user_by_username(username)
    IN IF found = {}
       THEN /\ resp' = Fail("login", 401, "Incorrect username or password",
                            Audit("auth.login", "failure"))
            /\ UNCHANGED <<clock, users, refresh_tokens, client_access, rbacTables>>
       ELSE LET id == CHOOSE i \in found : TRUE
                user == users[id]
            IN IF ~verify_password(password, user.hashed_password)
               THEN /\ user.failed_login_attempts < MaxFailed
                    /\ users' = [users EXCEPT ![id] = handle_failed_login(user)]
                    /\ resp' = Fail("login", 401, "Incorrect username or password",
                                    Audit("auth.login", "failure"))
                    /\ UNCHANGED <<clock, refresh_tokens, client_access, rbacTables>>
               ELSE IF ~user.is_active
               THEN /\ resp' = Fail("login", 403, "User account is inactive",
                                    Audit("auth.login", "failure"))
                    /\ UNCHANGED <<clock, users, refresh_tokens, client_access, rbacTables>>
               ELSE IF login_locked(user)
               THEN /\ resp' = Fail("login", 403, "User account is locked",
                                    Audit("auth.login", "failure"))
                    /\ UNCHANGED <<clock, users, refresh_tokens, client_access, rbacTables>>
               ELSE LET access == create_access_token(id)
                        refresh == create_refresh_token(id, Len(refresh_tokens) + 1)
                    IN /\ Len(refresh_tokens) < MaxTokens
                       /\ users' = [users EXCEPT ![id].failed_login_attempts = 0,
                                                 ![id].locked_until = None]
                       /\ refresh_tokens' = Append(refresh_tokens,
                              [token |-> refresh, user_id |-> id,
                               expires_at |-> now + RefreshLifetime,
                               is_revoked |-> FALSE, revoked_at |-> None])
                       /\ client_access' = [client_access EXCEPT ![id] = Some(access)]
                       /\ resp' = Resp("login", 200, "", Some(access), Some(refresh),
                                       Audit("auth.login", "success"))
                       /\ UNCHANGED <<clock, rbacTables>>

\* The refresh_tokens table after a successful refresh: the method issues an
\* access token and returns; it writes no row and commits nothing.
rows_after_refresh_Rotating(token) ==
    [k \in 1..Len(refresh_tokens) |->
        IF refresh_tokens[k].token = token
        THEN [refresh_tokens[k] EXCEPT !.is_revoked = TRUE, !.revoked_at = Some(now)]
        ELSE refresh_tokens[k]]
rows_after_refresh(token) == refresh_tokens

\* AuthService.refresh_access_token, for one outcome of decode_token
refresh_with(token, payload) ==
    IF payload = None \/ Val(payload).type # "refresh"
    THEN /\ resp' = Fail("refresh", 401, "Invalid refresh token", None)
         /\ UNCHANGED <<clock, users, refresh_tokens, client_access, rbacTables>>
    ELSE LET user_id == Val(payload).sub
             found == {k \in 1..Len(refresh_tokens) :
                          /\ refresh_tokens[k].token = token
                          /\ refresh_tokens[k].user_id = user_id
                          /\ refresh_tokens[k].is_revoked = FALSE}
         IN IF found = {}
            THEN /\ resp' = Fail("refresh", 401, "Refresh token not found or revoked",
                                 Audit("auth.refresh", "failure"))
                 /\ UNCHANGED <<clock, users, refresh_tokens, client_access, rbacTables>>
            ELSE IF is_expired(refresh_tokens[CHOOSE k \in found : TRUE])
            THEN /\ resp' = Fail("refresh", 401, "Refresh token expired",
                                 Audit("auth.refresh", "failure"))
                 /\ UNCHANGED <<clock, users, refresh_tokens, client_access, rbacTables>>
            ELSE IF user_id \notin DOMAIN users \/ ~users[user_id].is_active
            THEN /\ resp' = Fail("refresh", 401, "User not found or inactive",
                                 Audit("auth.refresh", "failure"))
                 /\ UNCHANGED <<clock, users, refresh_tokens, client_access, rbacTables>>
            ELSE LET access == create_access_token(user_id)
                 IN /\ client_access' = [client_access EXCEPT ![user_id] = Some(access)]
                    /\ refresh_tokens' = rows_after_refresh(token)
                    /\ resp' = Resp("refresh", 200, "", Some(access), Some(token),
                                    Audit("auth.refresh", "success"))
                    /\ UNCHANGED <<clock, users, rbacTables>>

Refresh(token) == \E payload \in decode_token(token) : refresh_with(token, payload)

\* The rows AuthService.logout commits: the non-revoked row with this token
\* string is revoked.
logout_rows_Again(token) ==
    [k \in 1..Len(refresh_tokens) |->
        IF refresh_tokens[k].token = token
        THEN [refresh_tokens[k] EXCEPT !.is_revoked = TRUE, !.revoked_at = Some(now)]
        ELSE refresh_tokens[k]]
logout_rows(token) ==
    [k \in 1..Len(refresh_tokens) |->
        IF refresh_tokens[k].token = token /\ refresh_tokens[k].is_revoked = FALSE
        THEN [refresh_tokens[k] EXCEPT !.is_revoked = TRUE, !.revoked_at = Some(now)]
        ELSE refresh_tokens[k]]

\* AuthService.logout, and the 400 the /auth/logout route makes of False
Logout(token) ==
    LET found == \E k \in 1..Len(refresh_tokens) :
                     /\ refresh_tokens[k].token = token
                     /\ refresh_tokens[k].is_revoked = FALSE
    IN /\ refresh_tokens' = logout_rows(token)
       /\ resp' = IF found THEN Ok("logout", 200, Audit("auth.logout", "success"))
                  ELSE Fail("logout", 400, "Invalid refresh token",
                            Audit("auth.logout", "failure"))
       /\ UNCHANGED <<clock, users, client_access, rbacTables>>

\* ------------------------------------------------- dependencies/auth.py
GateFail(status, detail) == [status |-> status, detail |-> detail, uid |-> 0]
GatePass(uid) == [status |-> 200, detail |-> "", uid |-> uid]

\* get_current_user, for one outcome of decode_token
current_user_of_AnyType(payload) ==
    IF payload = None THEN GateFail(401, "Could not validate credentials")
    ELSE IF Val(payload).sub \notin DOMAIN users
    THEN GateFail(401, "Could not validate credentials")
    ELSE GatePass(Val(payload).sub)
current_user_of(payload) ==
    IF payload = None THEN GateFail(401, "Could not validate credentials")
    ELSE IF Val(payload).type # "access" THEN GateFail(401, "Invalid token type")
    ELSE IF Val(payload).sub \notin DOMAIN users
    THEN GateFail(401, "Could not validate credentials")
    ELSE GatePass(Val(payload).sub)

get_current_user(token) == {current_user_of(payload) : payload \in decode_token(token)}

\* get_current_active_user, given the outcome of get_current_user
active_user_of_NoChecks(r) == r
active_user_of(r) ==
    IF r.status # 200 THEN r
    ELSE IF ~users[r.uid].is_active THEN GateFail(403, "User account is inactive")
    ELSE IF IsSome(users[r.uid].locked_until) /\ Val(users[r.uid].locked_until) > now
    THEN GateFail(403, "User account is locked")
    ELSE r

get_current_active_user(token) == {active_user_of(r) : r \in get_current_user(token)}

\* require_admin_or_superuser
admin_or_superuser_of(r) ==
    IF r.status # 200 THEN r
    ELSE IF ~(has_role(r.uid, "admin") \/ has_role(r.uid, "super_admin")
              \/ users[r.uid].is_superuser)
    THEN GateFail(403, "Admin or super admin role required")
    ELSE r

require_admin_or_superuser(token) ==
    {admin_or_superuser_of(r) : r \in get_current_active_user(token)}

\* require_permission(permission_name)
permission_checker_of(r, permission_name) ==
    IF r.status # 200 THEN r
    ELSE IF ~has_permission(r.uid, permission_name)
    THEN GateFail(403, "Permission required")
    ELSE r

require_permission(token, permission_name) ==
    {permission_checker_of(r, permission_name) : r \in get_current_active_user(token)}

\* require_role(role_name)
role_checker_of(r, role_name) ==
    IF r.status # 200 THEN r
    ELSE IF ~has_role(r.uid, role_name) THEN GateFail(403, "Role required")
    ELSE r

require_role(token, role_name) ==
    {role_checker_of(r, role_name) : r \in get_current_active_user(token)}

\* require_superuser
superuser_of(r) ==
    IF r.status # 200 THEN r
    ELSE IF ~(users[r.uid].is_superuser \/ has_role(r.uid, "super_admin"))
    THEN GateFail(403, "Superuser privileges required")
    ELSE r

require_superuser(token) == {superuser_of(r) : r \in get_current_active_user(token)}

\* GET /services: a route behind require_superuser that writes nothing
ListServices(token) ==
    \E g \in require_superuser(token) :
        /\ resp' = IF g.status = 200 THEN Ok("list_services", 200, None)
                   ELSE Fail("list_services", g.status, g.detail, None)
        /\ UNCHANGED <<clock, users, refresh_tokens, client_access, rbacTables>>

\* GET /users/me: a route behind get_current_active_user that writes nothing
GetMe(token) ==
    \E r \in get_current_active_user(token) :
        /\ resp' = IF r.status = 200 THEN Ok("get_me", 200, None)
                   ELSE Fail("get_me", r.status, r.detail, None)
        /\ UNCHANGED <<clock, users, refresh_tokens, client_access, rbacTables>>

\* The rows AuthService.logout_all commits
logout_all_rows_Everyone(user_id) ==
    [k \in 1..Len(refresh_tokens) |->
        IF refresh_tokens[k].is_revoked = FALSE
        THEN [refresh_tokens[k] EXCEPT !.is_revoked = TRUE, !.revoked_at = Some(now)]
        ELSE refresh_tokens[k]]
logout_all_rows(user_id) ==
    [k \in 1..Len(refresh_tokens) |->
        IF refresh_tokens[k].user_id = user_id /\ refresh_tokens[k].is_revoked = FALSE
        THEN [refresh_tokens[k] EXCEPT !.is_revoked = TRUE, !.revoked_at = Some(now)]
        ELSE refresh_tokens[k]]

\* POST /auth/logout-all: the gate, then AuthService.logout_all
LogoutAll(token) ==
    \E r \in get_current_active_user(token) :
        IF r.status # 200
        THEN /\ resp' = Fail("logout_all", r.status, r.detail, None)
             /\ UNCHANGED <<clock, users, refresh_tokens, client_access, rbacTables>>
        ELSE LET revoked == {k \in 1..Len(refresh_tokens) :
                                /\ refresh_tokens[k].user_id = r.uid
                                /\ refresh_tokens[k].is_revoked = FALSE}
             IN /\ refresh_tokens' = logout_all_rows(r.uid)
                /\ resp' = Ok("logout_all", 200,
                              AuditN("auth.logout_all", "success", Cardinality(revoked)))
                /\ UNCHANGED <<clock, users, client_access, rbacTables>>

\* The tokens a client can present: what the server has issued, or garbage.
HeldAccessTokens ==
    {Val(client_access[i]) : i \in {j \in UserIds : IsSome(client_access[j])}}
RefreshTokenStrings == {refresh_tokens[k].token : k \in 1..Len(refresh_tokens)}
PresentableTokens == {Garbage} \cup HeldAccessTokens \cup RefreshTokenStrings

\* ------------------------------------------------------------ UserService
\* list(dict.fromkeys(role_names)): duplicates dropped, first occurrences kept
RECURSIVE Dedupe(_)
Dedupe(names) ==
    IF names = <<>> THEN <<>>
    ELSE LET rest == Dedupe(SubSeq(names, 1, Len(names) - 1))
             last == names[Len(names)]
         IN IF last \in SeqToSet(rest) THEN rest ELSE Append(rest, last)

\* The active roles update_user_roles fetches for the requested names
active_roles_named(names) ==
    {id \in DOMAIN roles : roles[id].name \in SeqToSet(names) /\ roles[id].is_active}

\* The role links update_user_roles commits for the user
new_user_roles_KeepOld(uid, found, assigned_by) ==
    user_roles \cup
        {[user_id |-> uid, role_id |-> r, assigned_by |-> assigned_by] : r \in found}
new_user_roles(uid, found, assigned_by) ==
    {l \in user_roles : l.user_id # uid} \cup
        {[user_id |-> uid, role_id |-> r, assigned_by |-> assigned_by] : r \in found}

\* UserService.update_user_roles: its outcome and what it commits
update_user_roles_Bounded(uid, role_names, assigned_by) ==
    LET unique_role_names == Dedupe(role_names)
        found == active_roles_named(unique_role_names)
        assigner_is_superuser == IsSome(assigned_by) /\ users[Val(assigned_by)].is_superuser
    IN IF "super_admin" \in SeqToSet(unique_role_names) /\ ~assigner_is_superuser
       THEN [status |-> 403, detail |-> "Superuser privileges required",
             user_roles |-> user_roles, is_superuser |-> users[uid].is_superuser]
       ELSE IF \E n \in SeqToSet(unique_role_names) : n \notin {roles[id].name : id \in found}
       THEN [status |-> 404, detail |-> "Roles not found or inactive",
             user_roles |-> user_roles, is_superuser |-> users[uid].is_superuser]
       ELSE [status |-> 200, detail |-> "",
             user_roles |-> new_user_roles(uid, found, assigned_by),
             is_superuser |-> \E id \in found : roles[id].name = "super_admin"]
update_user_roles(uid, role_names, assigned_by) ==
    LET unique_role_names == Dedupe(role_names)
        found == active_roles_named(unique_role_names)
        found_role_names == {roles[id].name : id \in found}
        missing_roles == {n \in SeqToSet(unique_role_names) : n \notin found_role_names}
    IN IF missing_roles # {}
       THEN [status |-> 404, detail |-> "Roles not found or inactive",
             user_roles |-> user_roles, is_superuser |-> users[uid].is_superuser]
       ELSE [status |-> 200, detail |-> "",
             user_roles |-> new_user_roles(uid, found, assigned_by),
             is_superuser |-> \E id \in found : roles[id].name = "super_admin"]

\* PUT /users/{user_id}/roles after its permission gate: the actor is the
\* user the gate let through.
UpdateUserRoles(actor, target, role_names) ==
    IF target \notin DOMAIN users
    THEN /\ resp' = Fail("update_user_roles", 404, "User not found", None)
         /\ UNCHANGED <<clock, users, refresh_tokens, client_access, rbacTables>>
    ELSE LET r == update_user_roles(target, role_names, Some(actor))
         IN /\ user_roles' = r.user_roles
            /\ users' = [users EXCEPT ![target].is_superuser = r.is_superuser]
            /\ resp' = IF r.status = 200
                       THEN Ok("update_user_roles", 200, Audit("user.roles.update", "success"))
                       ELSE Fail("update_user_roles", r.status, r.detail, None)
            /\ UNCHANGED <<clock, refresh_tokens, client_access, roles, next_role_id,
                           permissions, role_permissions, services, role_service_accesses>>

\* The user row update_user_profile commits; phone and department are
\* carried like full_name and are left out
profile_update(user, full_name) ==
    [user EXCEPT !.full_name = IF IsSome(full_name) THEN full_name ELSE @]

\* PATCH /users/me: the gate, then UserService.update_user_profile
UpdateUserProfile(token, full_name) ==
    \E g \in get_current_active_user(token) :
        IF g.status # 200
        THEN /\ resp' = Fail("update_user_profile", g.status, g.detail, None)
             /\ UNCHANGED <<clock, users, refresh_tokens, client_access, rbacTables>>
        ELSE /\ users' = [users EXCEPT ![g.uid] = profile_update(@, full_name)]
             /\ resp' = Ok("update_user_profile", 200,
                           Audit("user.profile.update", "success"))
             /\ UNCHANGED <<clock, refresh_tokens, client_access, rbacTables>>

\* The user row and the refresh_tokens table change_password commits
password_change_Unlocking(user, new_password) ==
    [user EXCEPT !.hashed_password = get_password_hash(new_password),
                 !.password_changed_at = Some(now),
                 !.failed_login_attempts = 0,
                 !.locked_until = None]
password_change(user, new_password) ==
    [user EXCEPT !.hashed_password = get_password_hash(new_password),
                 !.password_changed_at = Some(now)]
rows_after_password_change_Revoking(user_id) == logout_all_rows(user_id)
rows_after_password_change(user_id) == refresh_tokens

\* POST /users/me/change-password: the gate, then UserService.change_password.
\* The new password is one the PasswordChange schema accepts.
ChangePassword(token, current_password, new_password) ==
    \E g \in get_current_active_user(token) :
        IF g.status # 200
        THEN /\ resp' = Fail("change_password", g.status, g.detail, None)
             /\ UNCHANGED <<clock, users, refresh_tokens, client_access, rbacTables>>
        ELSE IF ~verify_password(current_password, users[g.uid].hashed_password)
        THEN /\ resp' = Fail("change_password", 400, "Current password is incorrect",
                             None)
             /\ UNCHANGED <<clock, users, refresh_tokens, client_access, rbacTables>>
        ELSE /\ users' = [users EXCEPT ![g.uid] = password_change(@, new_password)]
             /\ refresh_tokens' = rows_after_password_change(g.uid)
             /\ resp' = Ok("change_password", 200,
                           Audit("user.password.change", "success"))
             /\ UNCHANGED <<clock, client_access, rbacTables>>

\* PUT /users/{user_id}/roles: the role:write gate, then the route
PutUserRoles(token, target, role_names) ==
    \E g \in require_permission(token, "role:write") :
        IF g.status # 200
        THEN /\ resp' = Fail("update_user_roles", g.status, g.detail, None)
             /\ UNCHANGED <<clock, users, refresh_tokens, client_access, rbacTables>>
        ELSE UpdateUserRoles(g.uid, target, role_names)

\* The fields of an AdminUserUpdate payload the model keeps
AdminData(full_name, is_active, role_names) ==
    [full_name |-> full_name, is_active |-> is_active, roles |-> role_names]

\* The user row admin_update_user commits before it turns to the roles
admin_profile_update(user, data) ==
    [user EXCEPT !.full_name = IF IsSome(data.full_name) THEN data.full_name ELSE @,
                 !.is_active = IF IsSome(data.is_active) THEN Val(data.is_active) ELSE @]

\* PATCH /users/{user_id}: the gate, then UserService.admin_update_user
AdminUpdateUser(token, target, data) ==
    \E g \in require_admin_or_superuser(token) :
        IF g.status # 200
        THEN /\ resp' = Fail("admin_update_user", g.status, g.detail, None)
             /\ UNCHANGED <<clock, users, refresh_tokens, client_access, rbacTables>>
        ELSE IF target \notin DOMAIN users
        THEN /\ resp' = Fail("admin_update_user", 404, "User not found", None)
             /\ UNCHANGED <<clock, users, refresh_tokens, client_access, rbacTables>>
        ELSE LET committed == admin_profile_update(users[target], data)
                 changed == IsSome(data.full_name) \/ IsSome(data.is_active)
             IN IF data.roles = None
                THEN /\ users' = [users EXCEPT ![target] = committed]
                     /\ resp' = Ok("admin_update_user", 200,
                                   IF changed THEN Audit("user.admin.update", "success")
                                   ELSE None)
                     /\ UNCHANGED <<clock, refresh_tokens, client_access, rbacTables>>
                ELSE LET r == update_user_roles(target, Val(data.roles), Some(g.uid))
                     IN /\ users' = [users EXCEPT ![target] =
                                        [committed EXCEPT !.is_superuser = r.is_superuser]]
                        /\ user_roles' = r.user_roles
                        /\ resp' = IF r.status = 200
                                   THEN Ok("admin_update_user", 200,
                                           IF changed
                                           THEN Audit("user.admin.update", "success")
                                           ELSE Audit("user.roles.update", "success"))
                                   ELSE Fail("admin_update_user", r.status, r.detail, None)
                        /\ UNCHANGED <<clock, refresh_tokens, client_access, roles,
                                       next_role_id, permissions, role_permissions,
                                       services, role_service_accesses>>

\* -------------------------------------------------- RoleManagementService
\* Python truthiness of an optional string: None and "" are falsy.
Truthy(name) == IsSome(name) /\ Val(name) # ""

\* The fields of RoleUpdate / RoleCreate payloads the model keeps
RoleUpdate(name, is_active, permission_ids, service_access) ==
    [name |-> name, is_active |-> is_active,
     permission_ids |-> permission_ids, service_access |-> service_access]
RoleCreate(name, is_active, is_system, permission_ids, service_access) ==
    [name |-> name, is_active |-> is_active, is_system |-> is_system,
     permission_ids |-> permission_ids, service_access |-> service_access]
AccessEntry(service_id, access_level, is_active) ==
    [service_id |-> service_id, access_level |-> access_level, is_active |-> is_active]

\* _fetch_permissions_or_404: the ids that are missing or inactive
missing_permissions(ids) ==
    {pid \in SeqToSet(ids) : pid \notin DOMAIN permissions \/ ~permissions[pid].is_active}

\* role.permissions = list(permissions): the role's rows of role_permissions
replace_permissions(role_id, ids) ==
    {rp \in role_permissions : rp[1] # role_id} \cup {<<role_id, pid>> : pid \in SeqToSet(ids)}

\* _apply_service_access: the first item whose service is missing or
\* inactive stops it with 404
unknown_services_Unchecked(payloads) == {}
unknown_services(payloads) ==
    {k \in 1..Len(payloads) :
        payloads[k].service_id \notin DOMAIN services
        \/ ~services[payloads[k].service_id].is_active}

\* _apply_service_access: the links of the role it leaves in the session.
\* Links whose service is not in the payload are deleted; a linked service is
\* updated in place (the last item for it wins); every item for a service not
\* yet linked adds a row.  A bag, as two items for one unlinked service add
\* two rows.
linked_services(role_id) ==
    {l.service_id : l \in {x \in role_service_accesses : x.role_id = role_id}}
last_item_for(payloads, service_id) ==
    payloads[CHOOSE k \in 1..Len(payloads) :
                /\ payloads[k].service_id = service_id
                /\ \A j \in (k + 1)..Len(payloads) : payloads[j].service_id # service_id]
applied_links(role_id, payloads) ==
    LET wanted == {payloads[k].service_id : k \in 1..Len(payloads)}
        kept == {l \in role_service_accesses : l.role_id = role_id /\ l.service_id \in wanted}
        updated == {[l EXCEPT !.access_level = last_item_for(payloads, l.service_id).access_level,
                              !.is_active = last_item_for(payloads, l.service_id).is_active]
                       : l \in kept}
        added == {[role_id |-> role_id, service_id |-> payloads[k].service_id,
                   access_level |-> payloads[k].access_level,
                   is_active |-> payloads[k].is_active]
                     : k \in {j \in 1..Len(payloads) :
                                 payloads[j].service_id \notin linked_services(role_id)}}
    IN {l \in role_service_accesses : l.role_id # role_id} \cup updated \cup added

\* uq_role_service: two new rows for one (role, service) fail the commit
duplicate_new_links(role_id, payloads) ==
    \E j, k \in 1..Len(payloads) :
        /\ j < k
        /\ payloads[j].service_id = payloads[k].service_id
        /\ payloads[j].service_id \notin linked_services(role_id)

\* "role.is_system and (payload.name or payload.is_active is False)"
system_role_blocked_RenameOnly(role, payload) ==
    role.is_system /\ Truthy(payload.name)
system_role_blocked(role, payload) ==
    role.is_system /\ (Truthy(payload.name) \/ payload.is_active = Some(FALSE))

\* RoleManagementService.update_role
UpdateRole(actor, role_id, payload) ==
    LET fail(status, detail) ==
            /\ resp' = Fail("update_role", status, detail, None)
            /\ UNCHANGED <<clock, users, refresh_tokens, client_access, rbacTables>>
    IN IF role_id \notin DOMAIN roles THEN fail(404, "Role not found")
       ELSE LET role == roles[role_id]
                renamed == Truthy(payload.name) /\ Val(payload.name) # role.name
            IN IF system_role_blocked(role, payload)
               THEN fail(400, "System roles cannot be renamed or deactivated")
               ELSE IF renamed /\ \E other \in DOMAIN roles \ {role_id} :
                                      roles[other].name = Val(payload.name)
               THEN fail(409, "Role name already exists")
               ELSE IF IsSome(payload.permission_ids)
                       /\ missing_permissions(Val(payload.permission_ids)) # {}
               THEN fail(404, "Permissions not found or inactive")
               ELSE IF IsSome(payload.service_access)
                       /\ unknown_services(Val(payload.service_access)) # {}
               THEN fail(404, "Service not found or inactive")
               ELSE IF IsSome(payload.service_access)
                       /\ duplicate_new_links(role_id, Val(payload.service_access))
               THEN fail(500, "IntegrityError")
               ELSE /\ roles' = [roles EXCEPT
                          ![role_id].name = IF renamed THEN Val(payload.name) ELSE @,
                          ![role_id].is_active = IF IsSome(payload.is_active)
                                                 THEN Val(payload.is_active) ELSE @]
                    /\ role_permissions' =
                          IF IsSome(payload.permission_ids)
                          THEN replace_permissions(role_id, Val(payload.permission_ids))
                          ELSE role_permissions
                    /\ role_service_accesses' =
                          IF IsSome(payload.service_access)
                          THEN applied_links(role_id, Val(payload.service_access))
                          ELSE role_service_accesses
                    /\ resp' = Ok("update_role", 200, Audit("role.update", "success"))
                    /\ UNCHANGED <<clock, users, refresh_tokens, client_access,
                                   next_role_id, permissions, services, user_roles>>

\* RoleManagementService.update_service with a payload that sets is_active
\* only; name, key and description are not in the model
UpdateService(actor, service_id, is_active) ==
    IF service_id \notin DOMAIN services
    THEN /\ resp' = Fail("update_service", 404, "Service not found", None)
         /\ UNCHANGED <<clock, users, refresh_tokens, client_access, rbacTables>>
    ELSE /\ services' = [services EXCEPT ![service_id].is_active = is_active]
         /\ resp' = Ok("update_service", 200, Audit("service.update", "success"))
         /\ UNCHANGED <<clock, users, refresh_tokens, client_access, roles, next_role_id,
                        permissions, role_permissions, role_service_accesses, user_roles>>

\* "if role.is_system" in delete_role
delete_blocked(role) == role.is_system

\* RoleManagementService.delete_role; the role's links go with it
DeleteRole(actor, role_id) ==
    LET fail(status, detail) ==
            /\ resp' = Fail("delete_role", status, detail, None)
            /\ UNCHANGED <<clock, users, refresh_tokens, client_access, rbacTables>>
    IN IF role_id \notin DOMAIN roles THEN fail(404, "Role not found")
       ELSE IF delete_blocked(roles[role_id])
       THEN fail(400, "System roles cannot be deleted")
       ELSE /\ roles' = [id \in DOMAIN roles \ {role_id} |-> roles[id]]
            /\ role_permissions' = {rp \in role_permissions : rp[1] # role_id}
            /\ role_service_accesses' = {l \in role_service_accesses : l.role_id # role_id}
            /\ user_roles' = {l \in user_roles : l.role_id # role_id}
            /\ resp' = Ok("delete_role", 204, Audit("role.delete", "success"))
            /\ UNCHANGED <<clock, users, refresh_tokens, client_access,
                           next_role_id, permissions, services>>

\* RoleManagementService.create_role
CreateRole(actor, payload) ==
    LET fail(status, detail) ==
            /\ resp' = Fail("create_role", status, detail, None)
            /\ UNCHANGED <<clock, users, refresh_tokens, client_access, rbacTables>>
        role_id == next_role_id
        perms == payload.permission_ids
        access == payload.service_access
    IN IF \E id \in DOMAIN roles : roles[id].name = payload.name
       THEN fail(409, "Role name already exists")
       ELSE IF IsSome(perms) /\ missing_permissions(Val(perms)) # {}
       THEN fail(404, "Permissions not found or inactive")
       ELSE IF IsSome(access) /\ unknown_services(Val(access)) # {}
       THEN fail(404, "Service not found or inactive")
       ELSE IF IsSome(access) /\ duplicate_new_links(role_id, Val(access))
       THEN fail(500, "IntegrityError")
       ELSE /\ next_role_id <= MaxRoleId
            /\ roles' = role_id :> [name |-> payload.name, is_active |-> payload.is_active,
                                    is_system |-> payload.is_system] @@ roles
            /\ next_role_id' = next_role_id + 1
            /\ role_permissions' =
                  IF IsSome(perms) THEN replace_permissions(role_id, Val(perms))
                  ELSE role_permissions
            /\ role_service_accesses' =
                  IF IsSome(access) /\ Val(access) # <<>>
                  THEN applied_links(role_id, Val(access))
                  ELSE role_service_accesses
            /\ resp' = Ok("create_role", 201, Audit("role.create", "success"))
            /\ UNCHANGED <<clock, users, refresh_tokens, client_access,
                           permissions, services, user_roles>>

\* The number of roles delete_permission finds the permission attached to
role_count_Zero(permission_id) == 0
role_count(permission_id) ==
    Cardinality({rp \in role_permissions : rp[2] = permission_id})

\* RoleManagementService.delete_permission
DeletePermission(actor, permission_id) ==
    LET fail(status, detail) ==
            /\ resp' = Fail("delete_permission", status, detail, None)
            /\ UNCHANGED <<clock, users, refresh_tokens, client_access, rbacTables>>
    IN IF permission_id \notin DOMAIN permissions THEN fail(404, "Permission not found")
       ELSE IF role_count(permission_id) > 0
       THEN fail(400, "Permission is assigned to role(s)")
       ELSE /\ permissions' = [id \in DOMAIN permissions \ {permission_id} |-> permissions[id]]
            /\ role_permissions' = {rp \in role_permissions : rp[2] # permission_id}
            /\ resp' = Ok("delete_permission", 204, Audit("permission.delete", "success"))
            /\ UNCHANGED <<clock, users, refresh_tokens, client_access, roles,
                           next_role_id, services, role_service_accesses, user_roles>>

\* The fields of a PermissionUpdate payload the model keeps
PermissionUpdate(name, is_active) == [name |-> name, is_active |-> is_active]

\* RoleManagementService.update_permission, behind the superuser gate
UpdatePermission(actor, permission_id, payload) ==
    LET fail(status, detail) ==
            /\ resp' = Fail("update_permission", status, detail, None)
            /\ UNCHANGED <<clock, users, refresh_tokens, client_access, rbacTables>>
    IN IF permission_id \notin DOMAIN permissions THEN fail(404, "Permission not found")
       ELSE LET permission == permissions[permission_id]
                renamed == IsSome(payload.name) /\ Val(payload.name) # permission.name
            IN IF renamed /\ \E id \in DOMAIN permissions \ {permission_id} :
                                permissions[id].name = Val(payload.name)
               THEN fail(409, "Permission with this name already exists")
               ELSE /\ permissions' =
                         [permissions EXCEPT
                             ![permission_id].name =
                                 IF renamed THEN Val(payload.name) ELSE @,
                             ![permission_id].is_active =
                                 IF IsSome(payload.is_active) THEN Val(payload.is_active)
                                 ELSE @]
                    /\ resp' = Ok("update_permission", 200,
                                  Audit("permission.update", "success"))
                    /\ UNCHANGED <<clock, users, refresh_tokens, client_access, roles,
                                   next_role_id, role_permissions, services,
                                   role_service_accesses, user_roles>>

\* ------------------------------------------------- AuthService.register_user
\* The id the database gives the next row of a table that only grows
next_id(table) == Cardinality(DOMAIN table) + 1

\* The fields of a UserRegister payload the model keeps
UserRegister(email, username, password) ==
    [email |-> email, username |-> username, password |-> password]

\* The two uniqueness pre-checks of register_user: the detail of the first
\* that fails
register_precheck(data) ==
    IF \E i \in DOMAIN users : users[i].email = data.email
    THEN Some("Email already registered")
    ELSE IF \E i \in DOMAIN users : users[i].username = data.username
    THEN Some("Username already taken")
    ELSE None

\* The status register_user gives a duplicate
REGISTER_DUPLICATE_STATUS == 400

\* The row register_user adds
new_user(data) ==
    [username |-> data.username,
     email |-> data.email,
     hashed_password |-> get_password_hash(data.password),
     full_name |-> None,
     is_active |-> TRUE,
     is_verified |-> FALSE,
     is_superuser |-> FALSE,
     failed_login_attempts |-> 0,
     locked_until |-> None,
     password_changed_at |-> Some(now)]

\* AuthService.register_user, with no other request in between
RegisterUser(data) ==
    IF register_precheck(data) # None
    THEN /\ resp' = Fail("register_user", REGISTER_DUPLICATE_STATUS,
                         Val(register_precheck(data)), None)
         /\ UNCHANGED <<clock, users, refresh_tokens, client_access, rbacTables>>
    ELSE /\ Cardinality(DOMAIN users) < MaxRows
         /\ users' = next_id(users) :> new_user(data) @@ users
         /\ resp' = Ok("register_user", 201, Audit("auth.register", "success"))
         /\ UNCHANGED <<clock, refresh_tokens, client_access, rbacTables>>

\* ------------------------------------------------------------ CameraService
\* The fields of a CameraCreate payload the model keeps
CameraCreate(model, mac, ipaddress, device_name) ==
    [model |-> model, mac |-> mac, ipaddress |-> ipaddress, device_name |-> device_name]

get_camera_by_mac(mac) == {i \in DOMAIN cameras : cameras[i].mac = mac}
get_camera_by_ip(ipaddress) == {i \in DOMAIN cameras : cameras[i].ipaddress = Some(ipaddress)}

\* The pre-checks of POST /cameras: "payload.ipaddress and ..." skips the
\* second for an absent or empty address
camera_precheck(payload) ==
    IF get_camera_by_mac(payload.mac) # {}
    THEN Some("Camera with this MAC address already exists")
    ELSE IF Truthy(payload.ipaddress) /\ get_camera_by_ip(Val(payload.ipaddress)) # {}
    THEN Some("Camera with this IP address already exists")
    ELSE None

\* The unique indexes of anpr_cameras: would the table with row `row` at `id`
\* break one?  NULL addresses never collide.
camera_unique_violation(id, row) ==
    \E j \in DOMAIN cameras \ {id} :
        \/ cameras[j].mac = row.mac
        \/ IsSome(row.ipaddress) /\ cameras[j].ipaddress = row.ipaddress

\* POST /cameras: the route's pre-checks, then CameraService.create_camera
CreateCamera(payload) ==
    LET id == next_id(cameras)
        fail(status, detail) ==
            /\ resp' = Fail("create_camera", status, detail, None)
            /\ UNCHANGED cameras
    IN IF camera_precheck(payload) # None
       THEN fail(409, Val(camera_precheck(payload)))
       ELSE IF camera_unique_violation(id, payload)
       THEN fail(500, "IntegrityError")
       ELSE /\ Len(cameras) < MaxRows
            /\ cameras' = Append(cameras, payload)
            /\ resp' = Ok("create_camera", 201, None)

\* PUT /cameras/{id}: the fields the payload sets (exclude_unset) are assigned
\* as they are, and the commit is left to the table's constraints
UpdateCamera(camera_id, payload) ==
    LET fail(status, detail) ==
            /\ resp' = Fail("update_camera", status, detail, None)
            /\ UNCHANGED cameras
    IN IF camera_id \notin DOMAIN cameras
       THEN fail(404, "Camera not found")
       ELSE LET row == [f \in DOMAIN cameras[camera_id] |->
                           IF f \in DOMAIN payload THEN payload[f]
                           ELSE cameras[camera_id][f]]
            IN IF camera_unique_violation(camera_id, row)
               THEN fail(500, "IntegrityError")
               ELSE /\ cameras' = [cameras EXCEPT ![camera_id] = row]
                    /\ resp' = Ok("update_camera", 200, None)

\* ------------------------------------------- concurrent create requests
\* A create request runs in two steps that other requests can come between:
\* its uniqueness pre-check (Begin), and its INSERT and commit (Commit).
PermissionCreate(name) == [name |-> name, is_active |-> TRUE]
ServiceCreate(name, key) == [name |-> name, key |-> key, is_active |-> TRUE]

\* The application-level pre-check of each operation: the response it ends the
\* request with, or None when the request goes on.  create_service has none.
precheck(op, payload) ==
    CASE op = "register_user" ->
            IF register_precheck(payload) # None
            THEN Some(Fail(op, REGISTER_DUPLICATE_STATUS, Val(register_precheck(payload)), None))
            ELSE None
      [] op = "create_role" ->
            IF \E id \in DOMAIN roles : roles[id].name = payload.name
            THEN Some(Fail(op, 409, "Role name already exists", None))
            ELSE None
      [] op = "create_permission" ->
            IF \E id \in DOMAIN permissions : permissions[id].name = payload.name
            THEN Some(Fail(op, 409, "Permission with this name already exists", None))
            ELSE None
      [] op = "create_camera" ->
            IF camera_precheck(payload) # None
            THEN Some(Fail(op, 409, Val(camera_precheck(payload)), None))
            ELSE None
      [] op = "create_service" -> None

\* The unique indexes: would the INSERT of the request fail now?
unique_violation(op, payload) ==
    CASE op = "register_user" ->
            \E i \in DOMAIN users : users[i].email = payload.email
                                    \/ users[i].username = payload.username
      [] op = "create_role" -> \E id \in DOMAIN roles : roles[id].name = payload.name
      [] op = "create_permission" ->
            \E id \in DOMAIN permissions : permissions[id].name = payload.name
      [] op = "create_service" ->
            \E id \in DOMAIN services : services[id].name = payload.name
                                        \/ services[id].key = payload.key
      [] op = "create_camera" -> camera_unique_violation(next_id(cameras), payload)

\* The operations whose commit sits in "try: ... except IntegrityError:"
catches_IntegrityError(op) == op \in {"create_permission", "create_service"}

\* How a request that hit a unique index ends: a caught error is rolled back
\* and answered 409, an uncaught one leaves the handler and is answered 500
integrity_response(op) ==
    IF catches_IntegrityError(op)
    THEN Fail(op, 409, "already exists", None)
    ELSE Fail(op, 500, "IntegrityError", None)

\* The table a create operation writes to is full (bounds the model)
table_full(op) ==
    CASE op = "register_user" -> Cardinality(DOMAIN users) >= MaxRows
      [] op = "create_role" -> next_role_id > MaxRoleId
      [] op = "create_permission" -> Cardinality(DOMAIN permissions) >= MaxRows
      [] op = "create_service" -> Cardinality(DOMAIN services) >= MaxRows
      [] op = "create_camera" -> Len(cameras) >= MaxRows

\* Step one of a create request of `client`
Begin(client, op, payload) ==
    /\ \A r \in inflight : r.client # client
    /\ IF precheck(op, payload) # None
       THEN /\ resp' = Val(precheck(op, payload))
            /\ UNCHANGED inflight
       ELSE /\ inflight' = inflight \cup {[client |-> client, op |-> op, payload |-> payload]}
            /\ UNCHANGED resp
    /\ UNCHANGED <<core, shared, login_failures, scopes, cameras, events>>

\* Step two: the INSERT and the commit
Commit(client) ==
    \E r \in inflight :
        /\ r.client = client
        /\ inflight' = inflight \ {r}
        /\ IF unique_violation(r.op, r.payload)
           THEN /\ resp' = integrity_response(r.op)
                /\ UNCHANGED <<core, shared, login_failures, scopes, cameras, events>>
           ELSE /\ ~table_full(r.op)
                /\ resp' = Ok(r.op, 201, None)
                /\ users' = IF r.op = "register_user"
                            THEN next_id(users) :> new_user(r.payload) @@ users
                            ELSE users
                /\ roles' = IF r.op = "create_role"
                            THEN next_role_id :> [name |-> r.payload.name,
                                                  is_active |-> r.payload.is_active,
                                                  is_system |-> r.payload.is_system] @@ roles
                            ELSE roles
                /\ next_role_id' = IF r.op = "create_role" THEN next_role_id + 1
                                   ELSE next_role_id
                /\ permissions' = IF r.op = "create_permission"
                                  THEN next_id(permissions) :> r.payload @@ permissions
                                  ELSE permissions
                /\ services' = IF r.op = "create_service"
                               THEN next_id(services) :> r.payload @@ services
                               ELSE services
                /\ cameras' = IF r.op = "create_camera"
                              THEN Append(cameras, r.payload)
                              ELSE cameras
                /\ UNCHANGED <<clock, refresh_tokens, client_access, role_permissions,
                               role_service_accesses, user_roles, events, shared,
                               login_failures, scopes>>

\* ------------------------------------------------------------- EventService
\* An event payload as it arrives: PlateROI is absent or gives some of the
\* keys X, Y, Width, Height; sub_events names the optional sections present.
EventPayload(camera_id, device_name, device_ip, event_id, plate_roi, sub_events) ==
    [camera_id |-> camera_id, device_name |-> device_name, device_ip |-> device_ip,
     event_id |-> event_id, plate_roi |-> plate_roi, sub_events |-> sub_events]

\* PlateROISchema: x, y, width and height are all required
RoiKeys == {"X", "Y", "Width", "Height"}
roi_valid(raw) == raw = None \/ DOMAIN Val(raw) = RoiKeys

\* plate_roi_x .. plate_roi_height of the row create_event builds
roi_columns(raw) ==
    IF raw = None \/ DOMAIN Val(raw) # RoiKeys
    THEN [x |-> None, y |-> None, width |-> None, height |-> None]
    ELSE [x |-> Some(Val(raw)["X"]), y |-> Some(Val(raw)["Y"]),
          width |-> Some(Val(raw)["Width"]), height |-> Some(Val(raw)["Height"])]

\* EventService._resolve_camera_id: the lookups it makes, in its order
by_id(payload) ==
    IF IsSome(payload.camera_id) /\ Val(payload.camera_id) # 0
       /\ Val(payload.camera_id) > 0 /\ Val(payload.camera_id) \in DOMAIN cameras
    THEN payload.camera_id
    ELSE None
by_ip(payload) ==
    LET found == {i \in DOMAIN cameras : cameras[i].ipaddress = Some(payload.device_ip)}
    IN IF payload.device_ip # "" /\ found # {} THEN Some(CHOOSE i \in found : TRUE) ELSE None
names_found(payload) ==
    IF payload.device_name = "" THEN {}
    ELSE {i \in DOMAIN cameras : cameras[i].device_name = Some(payload.device_name)}
by_name(payload) ==
    IF names_found(payload) # {} THEN Some(CHOOSE i \in names_found(payload) : TRUE) ELSE None

\* scalar_one_or_none raises when the device-name lookup is reached and
\* finds more than one camera
name_lookup_raises(payload) ==
    /\ by_id(payload) = None
    /\ by_ip(payload) = None
    /\ Cardinality(names_found(payload)) > 1

resolve_camera_id(payload) ==
    IF by_id(payload) # None THEN by_id(payload)
    ELSE IF by_ip(payload) # None THEN by_ip(payload)
    ELSE by_name(payload)

\* The row create_event adds, sub-event rows included
new_event(camera_id, payload) ==
    [camera_id |-> camera_id,
     device_name |-> payload.device_name,
     device_ip |-> payload.device_ip,
     event_uid |-> payload.event_id,
     plate_roi |-> roi_columns(payload.plate_roi),
     sub_events |-> payload.sub_events]

\* EventService._to_read_schema: plate_roi is given only when all four
\* columns are set
to_read_schema(event) ==
    [camera_id |-> event.camera_id,
     event_id |-> event.event_uid,
     plate_roi |-> IF \A k \in DOMAIN event.plate_roi : IsSome(event.plate_roi[k])
                   THEN Some([k \in DOMAIN event.plate_roi |-> Val(event.plate_roi[k])])
                   ELSE None,
     sub_events |-> event.sub_events]

\* POST /events: request validation, then EventService.create_event
CreateEvent(payload) ==
    LET fail(status, detail) ==
            /\ resp' = Fail("create_event", status, detail, None)
            /\ UNCHANGED events
        camera_id == resolve_camera_id(payload)
    IN IF ~roi_valid(payload.plate_roi)
       THEN fail(422, "Field required")
       ELSE IF name_lookup_raises(payload)
       THEN fail(500, "MultipleResultsFound")
       ELSE IF camera_id = None
       THEN fail(404, "Unable to resolve camera from payload")
       ELSE IF \E k \in DOMAIN events : events[k].event_uid = payload.event_id
       THEN fail(500, "IntegrityError")
       ELSE /\ Len(events) < MaxEvents
            /\ events' = Append(events, new_event(Val(camera_id), payload))
            /\ resp' = Ok("create_event", 201, None)

\* --------------------------------------------------------- logging_context
\* dict.get: the value under a key, if there is one
get(d, k) == IF k \in DOMAIN d THEN Some(d[k]) ELSE None

\* clear_context() with no keys
clear_context_Keep(ctx) == ctx
clear_context(ctx) == EmptyContext

\* update_logging_context: a None value removes its key, any other replaces it
update_logging_context(ctx, kwargs) ==
    LET keep == (DOMAIN ctx \ DOMAIN kwargs) \cup {k \in DOMAIN kwargs : kwargs[k] # None}
    IN [k \in keep |-> IF k \in DOMAIN kwargs THEN Val(kwargs[k]) ELSE ctx[k]]

\* generate_correlation_id: the prefix, a dash and a fresh uuid
generate_correlation_id(prefix, uuid) == prefix \o "-" \o uuid

\* set_correlation_id
set_correlation_id(ctx, correlation_id) ==
    update_logging_context(ctx, [correlation_id |-> Some(correlation_id)])

\* bind_request_context; client_ip, user_agent and session_id are carried
\* like tenant_id and are left out
bind_request_context(ctx, path, tenant_id) ==
    update_logging_context(ctx, [request_path |-> Some(path), tenant_id |-> tenant_id])

\* bind_user_context, called by get_current_user
bind_user_context(ctx, user_id) ==
    update_logging_context(ctx, [user_id |-> Some(user_id)])

\* _sanitize_values on a dict whose values may be None
sanitize_values(values) ==
    [k \in {j \in DOMAIN values : values[j] # None} |-> Val(values[k])]

\* {**current, **kwargs}
overlay(current, kwargs) ==
    [k \in DOMAIN current \cup DOMAIN kwargs |->
        IF k \in DOMAIN kwargs THEN kwargs[k] ELSE Some(current[k])]

\* _LOG_CONTEXT.reset(token): the variable takes the value it had before the
\* set call that made the token
reset_Keep(ctx, token) == ctx
reset(ctx, token) == token

\* scoped_context up to its yield
EnterScope(kwargs) ==
    /\ Len(scopes.tokens) < MaxScopes
    /\ log_context' = sanitize_values(overlay(log_context, kwargs))
    /\ scopes' = [scopes EXCEPT !.tokens = Append(@, log_context), !.inside = {}]
    /\ UNCHANGED <<correlation_header, request, outcome, sinks, delivered, sink_error>>

\* scoped_context from its yield on: the block returned or raised, the
\* finally clause runs
ExitScope(raised) ==
    /\ scopes.tokens # <<>>
    /\ log_context' = reset(log_context, scopes.tokens[Len(scopes.tokens)])
    /\ scopes' = [scopes EXCEPT !.tokens = SubSeq(@, 1, Len(@) - 1),
                                !.raised = raised]
    /\ UNCHANGED <<correlation_header, request, outcome, sinks, delivered, sink_error>>

\* update_logging_context and clear_context called by any code, inside a
\* scoped_context block or outside
UpdateLoggingContext(kwargs) ==
    /\ log_context' = update_logging_context(log_context, kwargs)
    /\ scopes' = [scopes EXCEPT !.inside = IF scopes.tokens = <<>> THEN @
                                           ELSE @ \cup {"update_logging_context"}]
    /\ UNCHANGED <<correlation_header, request, outcome, sinks, delivered, sink_error>>

ClearContext ==
    /\ log_context' = clear_context(log_context)
    /\ scopes' = [scopes EXCEPT !.inside = IF scopes.tokens = <<>> THEN @
                                           ELSE @ \cup {"clear_context"}]
    /\ UNCHANGED <<correlation_header, request, outcome, sinks, delivered, sink_error>>

\* -------------------------------------------------------------------- audit
\* AuditEvent.__post_init__: what record_event leaves unset is read from the
\* logging context
AuditEvent(action, ctx) ==
    [action |-> action,
     actor_id |-> get(ctx, "user_id"),
     correlation_id |-> get(ctx, "correlation_id"),
     request_id |-> get(ctx, "request_id")]

\* The sink that raises whenever it is called
raises(sink) == sink = "broken"

\* emit: the sink calls it makes, in order, up to the first one that raises
first_raising(registered) ==
    IF \E i \in DOMAIN registered : raises(registered[i])
    THEN CHOOSE i \in DOMAIN registered :
            /\ raises(registered[i])
            /\ \A j \in 1..(i - 1) : ~raises(registered[j])
    ELSE Len(registered)
emit(registered, event) ==
    IF registered = <<>>
    THEN << <<"_default_sink", event>> >>
    ELSE [i \in 1..first_raising(registered) |-> <<registered[i], event>>]

\* register_sink
RegisterSink(sink) ==
    /\ Len(sinks) < MaxSinks
    /\ sinks' = Append(sinks, sink)
    /\ UNCHANGED <<correlation_header, log_context, request, outcome, delivered, sink_error>>

\* clear_sinks
ClearSinks ==
    /\ sinks' = <<>>
    /\ UNCHANGED <<correlation_header, log_context, request, outcome, delivered, sink_error>>

\* record_event, called by a service method inside a request or by a command
\* outside one
RecordEvent(action) ==
    /\ request # None => sink_error = None
    /\ delivered' = emit(sinks, AuditEvent(action, log_context))
    /\ sink_error' = IF \E i \in DOMAIN sinks : raises(sinks[i])
                     THEN Some("SinkError") ELSE None
    /\ UNCHANGED <<correlation_header, log_context, request, outcome, sinks>>

\* ------------------------------------------------- RequestLoggingMiddleware
service_name == "auth-service"
CorrelationHeaders == <<"x-correlation-id", "x-request-id", "traceparent">>

\* `if value:` on a header read
header_set(headers, name) == Truthy(get(headers, name))

\* RequestLoggingMiddleware._resolve_correlation_id
resolve_correlation_id_RequestIdFirst(headers, uuid) ==
    IF header_set(headers, "x-request-id") THEN headers["x-request-id"]
    ELSE IF header_set(headers, correlation_header) THEN headers[correlation_header]
    ELSE generate_correlation_id(service_name, uuid)
resolve_correlation_id(headers, uuid) ==
    IF header_set(headers, correlation_header)
    THEN headers[correlation_header]
    ELSE IF \E i \in DOMAIN CorrelationHeaders : header_set(headers, CorrelationHeaders[i])
    THEN headers[CorrelationHeaders[
             CHOOSE i \in DOMAIN CorrelationHeaders :
                /\ header_set(headers, CorrelationHeaders[i])
                /\ \A j \in 1..(i - 1) : ~header_set(headers, CorrelationHeaders[j])]]
    ELSE generate_correlation_id(service_name, uuid)

\* RequestLoggingMiddleware._should_skip with the services' skip_paths and
\* skip_prefixes
should_skip(path) == path \in {"/health", "/docs"}

\* The line the finally block logs, unless the path is skipped
request_log(path, error) ==
    IF should_skip(path) THEN None
    ELSE Some([level |-> IF error = None THEN "INFO" ELSE "ERROR",
               message |-> IF error = None THEN "Request completed" ELSE "Request failed",
               exception |-> error])

\* dispatch up to call_next: resolve the id, clear the context, bind the
\* request's values
bound_context(ctx, headers, path, correlation_id) ==
    update_logging_context(
        bind_request_context(
            set_correlation_id(clear_context(ctx), correlation_id),
            path, get(headers, "x-tenant-id")),
        [request_id |-> get(headers, "x-request-id"),
         traceparent |-> get(headers, "traceparent")])

Dispatch(headers, path, uuid) ==
    LET correlation_id == resolve_correlation_id(headers, uuid)
    IN /\ request = None
       /\ request' = Some([headers |-> headers, path |-> path,
                           correlation_id |-> correlation_id])
       /\ log_context' = bound_context(log_context, headers, path, correlation_id)
       /\ outcome' = None
       /\ sink_error' = None
       /\ UNCHANGED <<correlation_header, sinks, delivered>>

\* get_current_user inside the handler binds the caller
BindUserContext(user_id) ==
    /\ request # None
    /\ sink_error = None
    /\ log_context' = bind_user_context(log_context, user_id)
    /\ UNCHANGED <<correlation_header, request, outcome, sinks, delivered, sink_error>>

\* call_next returns a response, which may carry its own correlation header;
\* the finally block then runs
CallNextReturns(status_code, own_header) ==
    /\ request # None
    /\ sink_error = None
    /\ outcome' = [kind |-> "response",
                   status_code |-> status_code,
                   correlation_header |->
                       IF own_header # None THEN own_header
                       ELSE Some(Val(request).correlation_id),
                   exception |-> None,
                   log |-> request_log(Val(request).path, None)]
    /\ log_context' = clear_context(log_context)
    /\ request' = None
    /\ UNCHANGED <<correlation_header, sinks, delivered, sink_error>>

\* call_next raises; the except clause re-raises and the finally block runs
CallNextRaises(exc) ==
    /\ request # None
    /\ sink_error \in {None, Some(exc)}
    /\ outcome' = [kind |-> "raised",
                   status_code |-> 500,
                   correlation_header |-> None,
                   exception |-> Some(exc),
                   log |-> request_log(Val(request).path, Some(exc))]
    /\ log_context' = clear_context(log_context)
    /\ request' = None
    /\ UNCHANGED <<correlation_header, sinks, delivered, sink_error>>

\* ---------------------------------------------------------------- seed_data
\* seed_permissions: the catalog of permission names, in its order
PermissionCatalog ==
    <<"anpr:read", "anpr:write", "anpr:delete", "anpr:manage",
      "camera:read", "camera:write", "camera:delete",
      "user:read", "user:write", "user:delete", "user:manage",
      "role:read", "role:write", "role:delete",
      "report:read", "report:generate", "system:admin">>

\* seed_roles: the system roles and the permission names each is given;
\* super_admin is given every permission in the table
RoleCatalog ==
    <<[name |-> "super_admin", every |-> TRUE, permissions |-> {}],
      [name |-> "admin", every |-> FALSE,
       permissions |-> {"user:read", "user:write", "user:manage", "role:read", "role:write",
                        "camera:read", "camera:write", "camera:delete", "anpr:read",
                        "anpr:write", "anpr:manage", "report:read", "report:generate"}],
      [name |-> "operator", every |-> FALSE,
       permissions |-> {"anpr:read", "anpr:write", "camera:read", "report:read",
                        "report:generate"}],
      [name |-> "viewer", every |-> FALSE,
       permissions |-> {"anpr:read", "camera:read", "report:read"}]>>

names_of(table) == {table[id].name : id \in DOMAIN table}

\* The id an auto-increment column gives after the rows of a table
last_id(table) ==
    IF DOMAIN table = {} THEN 0
    ELSE CHOOSE id \in DOMAIN table : \A other \in DOMAIN table : other <= id

\* The catalog entries seed_permissions or seed_roles has to insert: those
\* whose name no row carries, in catalog order
to_insert_All(catalog, table) == catalog
to_insert(catalog, table) ==
    LET absent(i) == i \in DOMAIN catalog /\ catalog[i] \notin names_of(table)
        place(i) == Cardinality({j \in 1..i : absent(j)})
        count == Cardinality({i \in DOMAIN catalog : absent(i)})
    IN [k \in 1..count |-> catalog[CHOOSE i \in DOMAIN catalog : absent(i) /\ place(i) = k]]

\* seed_permissions: the permissions table it commits
seed_permissions(table) ==
    LET missing == to_insert(PermissionCatalog, table)
        base == last_id(table)
    IN [id \in DOMAIN table \cup ((base + 1)..(base + Len(missing))) |->
          IF id \in DOMAIN table THEN table[id]
          ELSE [name |-> missing[id - base], is_active |-> TRUE]]

\* seed_roles: the roles table it commits, new roles taking ids from next
seed_roles(table, next) ==
    LET missing == to_insert([i \in DOMAIN RoleCatalog |-> RoleCatalog[i].name], table)
    IN [id \in DOMAIN table \cup (next..(next + Len(missing) - 1)) |->
          IF id \in DOMAIN table THEN table[id]
          ELSE [name |-> missing[id - next + 1], is_active |-> TRUE, is_system |-> TRUE]]

\* seed_roles: each catalog role's permissions are cleared and set to the
\* rows of perm_map its names find
seed_role_permissions(perms, role_table, links) ==
    LET seeded == {id \in DOMAIN role_table :
                      \E i \in DOMAIN RoleCatalog : RoleCatalog[i].name = role_table[id].name}
        entry(id) == RoleCatalog[CHOOSE i \in DOMAIN RoleCatalog :
                                    RoleCatalog[i].name = role_table[id].name]
    IN {rp \in links : rp[1] \notin seeded}
       \cup {rp \in seeded \X (DOMAIN perms) :
                \/ entry(rp[1]).every
                \/ perms[rp[2]].name \in entry(rp[1]).permissions}

\* cli_seed: seed_permissions, then seed_roles
Seed ==
    LET perms == seed_permissions(permissions)
        role_table == seed_roles(roles, next_role_id)
    IN /\ permissions' = perms
       /\ roles' = role_table
       /\ next_role_id' = next_role_id + Cardinality(DOMAIN role_table \ DOMAIN roles)
       /\ role_permissions' = seed_role_permissions(perms, role_table, role_permissions)
       /\ UNCHANGED <<clock, users, refresh_tokens, client_access, services,
                      role_service_accesses, user_roles, resp>>

\* ------------------------------------------------ concurrent failed logins
\* A login with a wrong password runs in two steps that other logins can come
\* between: the SELECT of the user row with the password check (BeginLogin),
\* and _handle_failed_login with its commit (CommitFailedLogin).

\* The row _handle_failed_login commits: the counter is the one the request
\* read plus one ("user.failed_login_attempts += 1" on the loaded object),
\* locked_until is written only when that reaches the threshold
failed_login_commit_Serialized(row, loaded) ==
    [row EXCEPT !.failed_login_attempts = row.failed_login_attempts + 1,
                !.locked_until = IF row.failed_login_attempts + 1 >= LOCK_THRESHOLD
                                 THEN Some(now + LOCK_MINUTES) ELSE @]
failed_login_commit(row, loaded) ==
    [row EXCEPT !.failed_login_attempts = loaded.failed_login_attempts + 1,
                !.locked_until = IF loaded.failed_login_attempts + 1 >= LOCK_THRESHOLD
                                 THEN Some(now + LOCK_MINUTES) ELSE @]

BeginLogin(client, username, password) ==
    /\ \A r \in inflight : r.client # client
    /\ user_by_username(username) # {}
    /\ LET id == CHOOSE i \in user_by_username(username) : TRUE
       IN /\ ~verify_password(password, users[id].hashed_password)
          /\ login_failures[id] + Cardinality({r \in inflight : r.payload.id = id})
                < MaxAttempts
          /\ inflight' = inflight \cup
                {[client |-> client, op |-> "login",
                  payload |-> [id |-> id, user |-> users[id]]]}
    /\ UNCHANGED <<core, shared, login_failures, scopes, resp, cameras, events>>

CommitFailedLogin(client) ==
    \E r \in inflight :
        /\ r.client = client
        /\ r.op = "login"
        /\ inflight' = inflight \ {r}
        /\ users' = [users EXCEPT
                        ![r.payload.id] = failed_login_commit(@, r.payload.user)]
        /\ login_failures' = [login_failures EXCEPT ![r.payload.id] = @ + 1]
        /\ resp' = Fail("login", 401, "Incorrect username or password",
                        Audit("auth.login", "failure"))
        /\ UNCHANGED <<clock, refresh_tokens, client_access, rbacTables, shared,
                       cameras, events, scopes>>

\* --------------------------------------------------------- specifications
\* Lockout and the gates.  The admin signs in with the right password; bob
\* and strangers try both.
LockTickSteps == {1, LOCK_MINUTES}
LockLogins == {<<UsernameOf(1), "Admin123">>} \cup
              {<<u, p>> : u \in {UsernameOf(2), GhostName}, p \in Passwords}
ActiveUpdates == {AdminData(None, Some(b), None) : b \in BOOLEAN}

NextAuth ==
    \/ \E d \in LockTickSteps : Tick(d) /\ UNCHANGED side
    \/ \E l \in LockLogins : Login(l[1], l[2]) /\ UNCHANGED side
    \/ \E t \in PresentableTokens : GetMe(t) /\ UNCHANGED side
    \/ \E t \in HeldAccessTokens, d \in ActiveUpdates : AdminUpdateUser(t, 2, d) /\ UNCHANGED side

Spec == Init /\ [][NextAuth]_vars

\* The refresh-token lifecycle.  Everybody signs in with the right password.
TokenTickSteps == {RefreshLifetime}
TokenLogins == {<<UsernameOf(i), "Admin123">> : i \in UserIds}

NextToken ==
    \/ \E d \in TokenTickSteps : Tick(d) /\ UNCHANGED side
    \/ \E l \in TokenLogins : Login(l[1], l[2]) /\ UNCHANGED side
    \/ \E t \in PresentableTokens : Refresh(t) /\ UNCHANGED side
    \/ \E t \in PresentableTokens : Logout(t) /\ UNCHANGED side
    \/ \E t \in PresentableTokens : LogoutAll(t) /\ UNCHANGED side
    \/ \E t \in HeldAccessTokens, d \in ActiveUpdates : AdminUpdateUser(t, 2, d) /\ UNCHANGED side

SpecToken == Init /\ [][NextToken]_vars
\* Access while inactive or locked: sign-in, refresh and the gate side by side.
AccessTickSteps == {LOCK_MINUTES}

NextAccess ==
    \/ \E d \in AccessTickSteps : Tick(d) /\ UNCHANGED side
    \/ \E l \in LockLogins : Login(l[1], l[2]) /\ UNCHANGED side
    \/ \E t \in PresentableTokens : GetMe(t) /\ UNCHANGED side
    \/ \E t \in RefreshTokenStrings : Refresh(t) /\ UNCHANGED side
    \/ \E t \in HeldAccessTokens, d \in ActiveUpdates : AdminUpdateUser(t, 2, d) /\ UNCHANGED side

SpecAccess == Init /\ [][NextAccess]_vars
\* Role and permission management, by an actor the superuser gate let through.
PermissionIds == {1, 2}
MissingPermissionId == 3
ReadAnpr == AccessEntry(1, "read", TRUE)
ManageAnprOff == AccessEntry(1, "manage", FALSE)
ReadCamera == AccessEntry(2, "read", TRUE)
PermissionLists == {<<>>, <<1, 2>>, <<MissingPermissionId>>}
AccessLists == {<<>>, <<ReadAnpr>>, <<ReadCamera>>, <<ReadAnpr, ManageAnprOff>>}
RoleUpdates ==
    {RoleUpdate(Some(n), None, None, None) : n \in {"super_admin", "auditor", ""}}
    \cup {RoleUpdate(None, Some(b), None, None) : b \in BOOLEAN}
    \cup {RoleUpdate(None, None, Some(ids), None) : ids \in PermissionLists}
    \cup {RoleUpdate(None, None, None, Some(acc)) : acc \in AccessLists}
    \cup {RoleUpdate(Some("auditor"), None, Some(<<>>), Some(<<>>)),
          RoleUpdate(None, Some(FALSE), Some(<<>>), Some(<<>>)),
          RoleUpdate(Some("auditor"), Some(TRUE), Some(<<MissingPermissionId>>), None)}
RoleCreates ==
    {RoleCreate("auditor", TRUE, FALSE, ids, acc) :
        ids \in {None, Some(<<2>>), Some(<<MissingPermissionId>>)},
        acc \in {None, Some(<<ReadAnpr>>), Some(<<ReadCamera>>)}}
RoleIds == 1..MaxRoleId

NextRbac ==
    \/ \E r \in RoleIds, u \in RoleUpdates : UpdateRole(1, r, u) /\ UNCHANGED side
    \/ \E r \in RoleIds : DeleteRole(1, r) /\ UNCHANGED side
    \/ \E c \in RoleCreates : CreateRole(1, c) /\ UNCHANGED side

SpecRbac == Init /\ [][NextRbac]_vars

\* Permissions and the roles they are attached to.
PermissionUpdates ==
    {RoleUpdate(None, None, Some(ids), None) :
        ids \in {<<>>, <<1>>, <<2>>, <<1, 2>>, <<MissingPermissionId>>}}
PermissionCreates ==
    {RoleCreate("auditor", TRUE, FALSE, ids, None) : ids \in {None, Some(<<1>>), Some(<<2>>)}}

NextPermissions ==
    \/ \E pid \in PermissionIds \cup {MissingPermissionId} : DeletePermission(1, pid) /\ UNCHANGED side
    \/ \E r \in RoleIds, u \in PermissionUpdates : UpdateRole(1, r, u) /\ UNCHANGED side
    \/ \E r \in RoleIds : DeleteRole(1, r) /\ UNCHANGED side
    \/ \E c \in PermissionCreates : CreateRole(1, c) /\ UNCHANGED side

SpecPermissions == Init /\ [][NextPermissions]_vars

\* Role assignment, while roles are switched off and on and deleted.
MissingUserId == 3
RequestedNames == SeqsUpTo({"super_admin", "analyst", "nosuch"}, 2)
ActivationUpdates == {RoleUpdate(None, Some(b), None, None) : b \in BOOLEAN}

NextUserRoles ==
    \/ \E a \in UserIds, u \in UserIds \cup {MissingUserId}, names \in RequestedNames :
          UpdateUserRoles(a, u, names) /\ UNCHANGED side
    \/ \E r \in RoleIds, u \in ActivationUpdates : UpdateRole(1, r, u) /\ UNCHANGED side
    \/ \E r \in RoleIds : DeleteRole(1, r) /\ UNCHANGED side

SpecUserRoles == Init /\ [][NextUserRoles]_vars

\* Requests that fail half way: profile and role changes by the admin, next
\* to role management with payloads that cannot be resolved.
ProfileUpdates ==
    {AdminData(fn, ia, rs) :
        fn \in {None, Some("Bob B.")}, ia \in {None, Some(FALSE)},
        rs \in {None, Some(<<"analyst">>), Some(<<"nosuch">>)}}
HalfWayUpdates ==
    ActivationUpdates \cup
    {RoleUpdate(Some("auditor"), Some(TRUE), Some(<<MissingPermissionId>>), None),
     RoleUpdate(Some("auditor"), None, Some(<<>>), Some(<<ReadCamera>>))}
HalfWayCreates ==
    {RoleCreate("auditor", TRUE, FALSE, ids, acc) :
        ids \in {Some(<<2>>), Some(<<MissingPermissionId>>)},
        acc \in {None, Some(<<ReadCamera>>)}}

NextAtomic ==
    \/ Login(UsernameOf(1), "Admin123") /\ UNCHANGED side
    \/ \E t \in HeldAccessTokens, u \in {2, MissingUserId}, d \in ProfileUpdates :
          AdminUpdateUser(t, u, d) /\ UNCHANGED side
    \/ \E r \in RoleIds, u \in HalfWayUpdates : UpdateRole(1, r, u) /\ UNCHANGED side
    \/ \E c \in HalfWayCreates : CreateRole(1, c) /\ UNCHANGED side
    \/ \E names \in RequestedNames : UpdateUserRoles(1, 2, names) /\ UNCHANGED side

SpecAtomic == Init /\ [][NextAtomic]_vars

\* Create requests racing for one unique key, two clients at a time.
Clients == 1..MaxClients
RaceRequests ==
    {<<"register_user", UserRegister("carol@example.com", "carol", "Secret123")>>,
     <<"register_user", UserRegister("bob@example.com", "robert", "Secret123")>>,
     <<"create_role", RoleCreate("auditor", TRUE, FALSE, None, None)>>,
     <<"create_permission", PermissionCreate("report:read")>>,
     <<"create_service", ServiceCreate("Reporting", "reporting")>>,
     <<"create_service", ServiceCreate("Reports", "anpr")>>,
     <<"create_camera", CameraCreate("X1", "AA:01", Some("10.0.0.1"), None)>>,
     <<"create_camera", CameraCreate("X2", "AA:02", Some("10.0.0.1"), None)>>}

NextRace ==
    \/ \E c \in Clients, q \in RaceRequests : Begin(c, q[1], q[2])
    \/ \E c \in Clients : Commit(c)

SpecRace == Init /\ [][NextRace]_vars

\* Registration, and sign-in attempts of old and new accounts.
RegisterPayloads ==
    {UserRegister("carol@example.com", "carol", "Secret123"),
     UserRegister("dave@example.com", "dave", "Secret123"),
     UserRegister("bob@example.com", "robert", "Secret123"),
     UserRegister("bobby@example.com", "bob", "Secret123")}
RegisterLogins == {UsernameOf(2), "carol", "dave"} \X Passwords

NextRegister ==
    \/ \E d \in RegisterPayloads : RegisterUser(d) /\ UNCHANGED side
    \/ \E l \in RegisterLogins : Login(l[1], l[2]) /\ UNCHANGED side

SpecRegister == Init /\ [][NextRegister]_vars

\* The camera registry.
Macs == {"AA:01", "AA:02", "AA:03"}
IpAddresses == {None, Some(""), Some("10.0.0.1"), Some("10.0.0.2")}
CameraCreates ==
    {CameraCreate(m, mac, ip, None) : m \in {"X1", "X2"}, mac \in Macs, ip \in IpAddresses}
CameraUpdates ==
    {[mac |-> mac] : mac \in Macs} \cup {[ipaddress |-> ip] : ip \in IpAddresses}
    \cup {[model |-> "X2", device_name |-> Some("gate")]}
CameraIds == 1..MaxRows

NextCameras ==
    \/ \E p \in CameraCreates : CreateCamera(p) /\ UNCHANGED <<core, shared, login_failures, scopes, inflight, events>>
    \/ \E id \in CameraIds, p \in CameraUpdates :
          UpdateCamera(id, p) /\ UNCHANGED <<core, shared, login_failures, scopes, inflight, events>>

SpecCameras == Init /\ [][NextCameras]_vars

\* Event ingestion against a registry of three cameras, two of one name.
EventCameras ==
    {CameraCreate("X1", "AA:01", Some("10.0.0.1"), Some("gate")),
     CameraCreate("X1", "AA:02", Some("10.0.0.2"), Some("yard")),
     CameraCreate("X2", "AA:03", None, Some("yard"))}
ResolvePayloads ==
    {EventPayload(id, name, ip, e, None, subs) :
        id \in {None, Some(0), Some(-1), Some(1), Some(2), Some(9)},
        name \in {"gate", "yard", "nowhere"},
        ip \in {"", "10.0.0.1", "10.0.0.9"},
        e \in {"E1"},
        subs \in {{}, {"list_event", "violation_event"}}}

NextEvents ==
    \/ \E p \in EventCameras : CreateCamera(p) /\ UNCHANGED <<core, shared, login_failures, scopes, inflight, events>>
    \/ \E p \in ResolvePayloads : CreateEvent(p) /\ UNCHANGED <<core, shared, login_failures, scopes, inflight, cameras>>

SpecEvents == Init /\ [][NextEvents]_vars

\* Event ingestion with every shape of PlateROI.
PlateRois ==
    {None, Some([X |-> 10, Y |-> 20]), Some([Width |-> 30]),
     Some([X |-> 10, Y |-> 20, Width |-> 30, Height |-> 40])}
RoiPayloads ==
    {EventPayload(id, "gate", "10.0.0.1", e, roi, subs) :
        id \in {None, Some(2)},
        e \in {"E1", "E2"},
        roi \in PlateRois,
        subs \in {{}, {"attribute_event"}}}

NextRoi ==
    \/ \E p \in EventCameras : CreateCamera(p) /\ UNCHANGED <<core, shared, login_failures, scopes, inflight, events>>
    \/ \E p \in RoiPayloads : CreateEvent(p) /\ UNCHANGED <<core, shared, login_failures, scopes, inflight, cameras>>

SpecRoi == Init /\ [][NextRoi]_vars

\* Requests through the middleware, with either the default correlation header
\* or a custom one configured.
stores == <<core, resp, inflight, cameras, events, login_failures>>
tables == <<stores, scopes>>

HeaderChoices ==
    "x-trace-id" :> {"T1"} @@ "x-correlation-id" :> {"", "C1"} @@ "x-request-id" :> {"R1"}
    @@ "traceparent" :> {"P1"} @@ "x-tenant-id" :> {"acme"}
RequestHeaders ==
    UNION {{h \in [names -> UNION {HeaderChoices[n] : n \in names}] :
               \A n \in names : h[n] \in HeaderChoices[n]} :
           names \in SUBSET DOMAIN HeaderChoices}
Uuids == {"u1", "u2"}
Exceptions == {"RuntimeError", "SinkError"}

InitMiddleware ==
    /\ InitTables
    /\ correlation_header \in {"x-correlation-id", "x-trace-id"}
    /\ log_context = EmptyContext
    /\ request = None
    /\ outcome = None
    /\ sinks \in {<<>>, <<"queue", "broken">>}
    /\ delivered = <<>>
    /\ sink_error = None

NextMiddleware ==
    \/ \E h \in RequestHeaders : \E path \in {"/health", "/api/v1/users"} :
          \E u \in Uuids : Dispatch(h, path, u) /\ UNCHANGED tables
    \/ \E u \in {"1"} : BindUserContext(u) /\ UNCHANGED tables
    \/ \E a \in {"auth.login"} : RecordEvent(a) /\ UNCHANGED tables
    \/ \E own \in {None, Some("H1")} : CallNextReturns(200, own) /\ UNCHANGED tables
    \/ \E e \in Exceptions : CallNextRaises(e) /\ UNCHANGED tables

SpecMiddleware == InitMiddleware /\ [][NextMiddleware]_vars

\* The audit emitter used on its own, sinks being registered and cleared.
Sinks == {"queue", "database", "broken"}

NextAudit ==
    \/ \E s \in Sinks : RegisterSink(s) /\ UNCHANGED tables
    \/ ClearSinks /\ UNCHANGED tables
    \/ \E a \in {"auth.login", "role.create"} : RecordEvent(a) /\ UNCHANGED tables

SpecAudit == Init /\ [][NextAudit]_vars

\* The seed command run on databases in any state, between deletions of
\* roles and permissions.
SeedPermissionTables ==
    {<<>>,
     <<[name |-> "anpr:read", is_active |-> TRUE]>>,
     <<[name |-> "custom:export", is_active |-> TRUE],
       [name |-> "system:admin", is_active |-> FALSE]>>}
SeedRoleTables ==
    {<<>>,
     <<[name |-> "viewer", is_active |-> TRUE, is_system |-> TRUE]>>,
     <<[name |-> "admin", is_active |-> FALSE, is_system |-> FALSE],
       [name |-> "analyst", is_active |-> TRUE, is_system |-> FALSE]>>}

InitSeed ==
    /\ InitOther
    /\ permissions \in SeedPermissionTables
    /\ roles \in SeedRoleTables
    /\ next_role_id = Len(roles) + 1
    /\ role_permissions \in SUBSET ((DOMAIN roles) \X (DOMAIN permissions))
    /\ role_service_accesses = {}
    /\ user_roles = {}
    /\ correlation_header = "x-correlation-id"
    /\ log_context = EmptyContext
    /\ request = None
    /\ outcome = None
    /\ sinks = <<>>
    /\ delivered = <<>>
    /\ sink_error = None

NextSeed ==
    \/ Seed /\ UNCHANGED side
    \/ \E id \in 1..3 : DeleteRole(1, id) /\ UNCHANGED side
    \/ \E id \in 1..3 : DeletePermission(1, id) /\ UNCHANGED side

SpecSeed == InitSeed /\ [][NextSeed]_vars

\* Service access lists applied to roles while services are switched on and
\* off.
ManageCamera == AccessEntry(2, "manage", TRUE)
ReconcileLists ==
    {<<>>, <<ReadAnpr>>, <<ManageAnprOff>>, <<ReadCamera>>, <<ReadAnpr, ReadCamera>>,
     <<ReadCamera, ManageCamera>>, <<AccessEntry(3, "read", TRUE)>>}
ReconcileRoles == {1, 2}

NextReconcile ==
    \/ \E id \in 1..3, b \in BOOLEAN : UpdateService(1, id, b) /\ UNCHANGED side
    \/ \E r \in ReconcileRoles, acc \in ReconcileLists :
          UpdateRole(1, r, RoleUpdate(None, None, None, Some(acc))) /\ UNCHANGED side

SpecReconcile == Init /\ [][NextReconcile]_vars

\* Wrong-password logins of two clients, interleaved.
NextLoginRace ==
    \/ \E c \in Clients, u \in UserIds : BeginLogin(c, UsernameOf(u), "Wrong4567")
    \/ \E c \in Clients : CommitFailedLogin(c)

SpecLoginRace == Init /\ [][NextLoginRace]_vars

\* scoped_context blocks, nested, around code that updates and clears the
\* logging context.
ScopeFields ==
    {[job_id |-> Some("sync-123")],
     [job_id |-> None],
     [job_id |-> Some("sync-456"), user_id |-> None],
     [user_id |-> Some("7")]}

NextScope ==
    \/ \E kw \in ScopeFields : EnterScope(kw) /\ UNCHANGED stores
    \/ \E raised \in BOOLEAN : ExitScope(raised) /\ UNCHANGED stores
    \/ \E kw \in ScopeFields : UpdateLoggingContext(kw) /\ UNCHANGED stores
    \/ ClearContext /\ UNCHANGED stores

SpecScope == Init /\ [][NextScope]_vars

\* Recovery from a lockout, beside the other operations that write a user
\* row.  Bob and a stranger sign in; bob changes his password and profile;
\* the admin deactivates him, reactivates him and replaces his roles.
RecoveryLogins ==
    {<<UsernameOf(2), "Admin123">>, <<UsernameOf(2), "Wrong4567">>,
     <<GhostName, "Wrong4567">>}
RecoveryUpdates ==
    {AdminData(None, Some(FALSE), None),
     AdminData(Some("Bob"), Some(TRUE), Some(<<"analyst">>))}

NextRecovery ==
    \/ \E d \in AccessTickSteps : Tick(d) /\ UNCHANGED side
    \/ \E l \in RecoveryLogins : Login(l[1], l[2]) /\ UNCHANGED side
    \/ \E t \in HeldAccessTokens, p \in Passwords :
          ChangePassword(t, p, "Admin123") /\ UNCHANGED side
    \/ \E t \in HeldAccessTokens : UpdateUserProfile(t, Some("Bob")) /\ UNCHANGED side
    \/ \E d \in RecoveryUpdates : AdminUpdateUser(create_access_token(1), 2, d)
          /\ UNCHANGED side
    \/ UpdateUserRoles(1, 2, <<>>) /\ UNCHANGED side
    \/ RegisterUser(UserRegister("carol@example.com", "carol", "Secret123"))
          /\ UNCHANGED side

SpecRecovery == Init /\ [][NextRecovery]_vars

\* A locked account over time: bob signs in with right and wrong passwords
\* while his lock runs and after it has run out.
RelockLogins == {UsernameOf(2)} \X Passwords

NextRelock ==
    \/ \E d \in LockTickSteps : Tick(d) /\ UNCHANGED side
    \/ \E l \in RelockLogins : Login(l[1], l[2]) /\ UNCHANGED side

SpecRelock == Init /\ [][NextRelock]_vars

\* Revocation: sign-in, refresh, logout and logout-all over time.
NextRevoke ==
    \/ \E d \in TokenTickSteps : Tick(d) /\ UNCHANGED side
    \/ \E l \in TokenLogins : Login(l[1], l[2]) /\ UNCHANGED side
    \/ \E t \in RefreshTokenStrings : Refresh(t) /\ UNCHANGED side
    \/ \E t \in PresentableTokens : Logout(t) /\ UNCHANGED side
    \/ \E t \in HeldAccessTokens : LogoutAll(t) /\ UNCHANGED side

SpecRevoke == Init /\ [][NextRevoke]_vars

\* Password changes between sign-ins and refreshes.  The new password is
\* one no sign-in of this specification uses, so a user whose hash is the
\* new one got every token he has before the change.
NewPassword == "Newpass99"
PasswordLogins == {<<UsernameOf(2), "Admin123">>}

NextPassword ==
    \/ \E d \in AccessTickSteps : Tick(d) /\ UNCHANGED side
    \/ \E l \in PasswordLogins : Login(l[1], l[2]) /\ UNCHANGED side
    \/ \E t \in HeldAccessTokens, p \in Passwords :
          ChangePassword(t, p, NewPassword) /\ UNCHANGED side
    \/ \E t \in RefreshTokenStrings : Refresh(t) /\ UNCHANGED side

SpecPassword == Init /\ [][NextPassword]_vars

\* Role assignment by users below the superuser.  The database after the
\* seed command's roles: bob holds either the system role admin or a custom
\* role a superuser gave the role:write permission.
InitGates ==
    /\ InitOther
    /\ roles = (1 :> [name |-> "super_admin", is_active |-> TRUE, is_system |-> TRUE]
                @@ 2 :> [name |-> "admin", is_active |-> TRUE, is_system |-> TRUE]
                @@ 3 :> [name |-> "analyst", is_active |-> TRUE, is_system |-> FALSE])
    /\ next_role_id = 4
    /\ permissions = (1 :> [name |-> "role:write", is_active |-> TRUE]
                      @@ 2 :> [name |-> "anpr:read", is_active |-> TRUE])
    /\ role_permissions = {<<1, 1>>, <<1, 2>>, <<2, 1>>, <<2, 2>>, <<3, 1>>}
    /\ role_service_accesses = {}
    /\ \E r \in {2, 3} :
          user_roles = {[user_id |-> 1, role_id |-> 1, assigned_by |-> None],
                        [user_id |-> 2, role_id |-> r, assigned_by |-> Some(1)]}
    /\ correlation_header = "x-correlation-id"
    /\ log_context = EmptyContext
    /\ request = None
    /\ outcome = None
    /\ sinks = <<>>
    /\ delivered = <<>>
    /\ sink_error = None

EscalateLogins == {<<UsernameOf(i), "Admin123">> : i \in UserIds}
EscalateRoleLists == {<<"super_admin">>, <<"analyst">>, <<"admin", "super_admin">>}
EscalateUpdates == {AdminData(None, None, Some(names)) : names \in EscalateRoleLists}

NextEscalate ==
    \/ \E l \in EscalateLogins : Login(l[1], l[2]) /\ UNCHANGED side
    \/ \E t \in HeldAccessTokens, u \in UserIds, names \in EscalateRoleLists :
          PutUserRoles(t, u, names) /\ UNCHANGED side
    \/ \E t \in HeldAccessTokens, u \in UserIds, d \in EscalateUpdates :
          AdminUpdateUser(t, u, d) /\ UNCHANGED side
    \/ \E t \in HeldAccessTokens : ListServices(t) /\ UNCHANGED side

SpecEscalate == InitGates /\ [][NextEscalate]_vars

\* The gates while roles and permissions are switched off and on and links
\* are replaced.  Whoever passes the superuser gate manages roles and
\* permissions; whoever passes the role:write gate replaces role links.
GateRoleLists == {<<>>, <<"admin">>, <<"analyst">>}
ActivityUpdates == {RoleUpdate(None, Some(b), None, None) : b \in BOOLEAN}
LinkUpdates == {RoleUpdate(None, None, Some(ids), None) : ids \in {<<>>, <<1>>}}
PermissionSwitches == {PermissionUpdate(None, Some(b)) : b \in BOOLEAN}

NextGates ==
    \/ \E l \in EscalateLogins : Login(l[1], l[2]) /\ UNCHANGED side
    \/ \E t \in HeldAccessTokens, r \in {2, 3}, d \in ActivityUpdates \cup LinkUpdates :
          \E g \in require_superuser(t) :
              g.status = 200 /\ UpdateRole(g.uid, r, d) /\ UNCHANGED side
    \/ \E t \in HeldAccessTokens, id \in PermissionIds, d \in PermissionSwitches :
          \E g \in require_superuser(t) :
              g.status = 200 /\ UpdatePermission(g.uid, id, d) /\ UNCHANGED side
    \/ \E t \in HeldAccessTokens, u \in UserIds, names \in GateRoleLists :
          PutUserRoles(t, u, names) /\ UNCHANGED side
    \/ \E t \in HeldAccessTokens : ListServices(t) /\ UNCHANGED side

SpecGates == InitGates /\ [][NextGates]_vars

\* ------------------------------------------------------------- properties
\* What the properties below say about a state, written out from the claims
\* and not through the operators of the model.
Locked(i) == users[i].locked_until # None /\ users[i].locked_until[1] > now
RightPassword(i, p) == verify_password(p, users[i].hashed_password)
\* The step answers a request of this kind (every action names itself in the
\* response); it lets a property skip the other steps quickly.
IsLogin == resp'.op = "login"
IsRefresh == resp'.op = "refresh"
IsLogoutAll == resp'.op = "logout_all"
IsGetMe == resp'.op = "get_me"
NoTokensIssued ==
    /\ resp'.access_token = None
    /\ resp'.refresh_token = None
    /\ refresh_tokens' = refresh_tokens
    /\ client_access' = client_access

\* C1 (as stated): while locked_until is in the future, every login attempt
\* for that username, with the right password or a wrong one, is rejected
\* with 403 and issues no token pair.
C1_LockedLoginAlwaysForbidden ==
    [][\A i \in UserIds, p \in Passwords :
          (Locked(i) /\ IsLogin /\ Login(users[i].username, p))
              => (resp'.status = 403 /\ NoTokensIssued)]_vars

\* C1 (amended): while locked_until is in the future, no login attempt for
\* that username issues a token pair: with the right password it is rejected
\* with 403, with a wrong one with 401 (the password is checked first).
C1_LockedLoginRejected ==
    [][\A i \in UserIds, p \in Passwords :
          (Locked(i) /\ IsLogin /\ Login(users[i].username, p))
              => /\ resp'.status = IF RightPassword(i, p) THEN 403 ELSE 401
                 /\ NoTokensIssued]_vars

\* A login with the right password was just refused because the account is
\* locked.
C1_Witness ==
    /\ resp.op = "login" /\ resp.status = 403
    /\ resp.detail = "User account is locked"
    /\ \E i \in UserIds : Locked(i) /\ users[i].is_active

\* C2: a wrong-password login of an existing user adds exactly 1 to
\* failed_login_attempts; it sets locked_until to now + 30 minutes exactly
\* when the counter is then >= 5 and otherwise leaves locked_until alone.
C2_FailedLoginAccounting ==
    [][\A i \in UserIds, p \in Passwords :
          (~RightPassword(i, p) /\ IsLogin /\ Login(users[i].username, p))
              => /\ users'[i].failed_login_attempts = users[i].failed_login_attempts + 1
                 /\ users'[i].locked_until =
                        IF users'[i].failed_login_attempts >= 5
                        THEN Some(now + 30)
                        ELSE users[i].locked_until
                 /\ resp'.status = 401]_vars

\* The fifth wrong password has just locked an account for 30 minutes.
C2_Witness ==
    /\ resp.op = "login" /\ resp.status = 401
    /\ \E i \in UserIds : /\ users[i].failed_login_attempts = 5
                          /\ users[i].locked_until = Some(now + 30)

\* A refresh token whose row is there, not revoked, not expired, and whose
\* owner is active.
UsableRefreshToken(t) ==
    /\ t.type = "refresh"
    /\ \E k \in 1..Len(refresh_tokens) :
          /\ refresh_tokens[k].token = t
          /\ ~refresh_tokens[k].is_revoked
          /\ now < refresh_tokens[k].expires_at
          /\ users[refresh_tokens[k].user_id].is_active

\* C3: refresh_access_token never changes the refresh_tokens table; with a
\* usable token T it succeeds, echoes T, and leaves T usable, so a further
\* refresh with T succeeds again.
C3_RefreshDoesNotRotate ==
    [][\A t \in PresentableTokens :
          IsRefresh /\ Refresh(t)
              => /\ refresh_tokens' = refresh_tokens
                 /\ UsableRefreshToken(t)
                        => /\ resp'.status = 200
                           /\ resp'.refresh_token = Some(t)
                           /\ UsableRefreshToken(t)']_vars

\* A refresh has just succeeded and its token is still usable.
C3_Witness ==
    /\ resp.op = "refresh" /\ resp.status = 200
    /\ UsableRefreshToken(resp.refresh_token[1])

DeadRow(k) == refresh_tokens[k].is_revoked \/ now >= refresh_tokens[k].expires_at

\* C4: a refresh token whose row is revoked, or whose expires_at has been
\* reached, is rejected with 401 and mints no access token; and a row that is
\* revoked or expired stays so in every later state.
C4_DeadTokenRejected ==
    [][/\ \A t \in PresentableTokens :
              (IsRefresh /\ Refresh(t) /\ \E k \in 1..Len(refresh_tokens) :
                                 refresh_tokens[k].token = t /\ DeadRow(k))
                  => (resp'.status = 401 /\ NoTokensIssued)
       /\ \A k \in 1..Len(refresh_tokens) : DeadRow(k) => DeadRow(k)']_vars

\* A refresh was just refused at the very instant its row expires, after the
\* token itself had decoded.
C4_Witness ==
    /\ resp.op = "refresh" /\ resp.status = 401
    /\ resp.detail = "Refresh token expired"
    /\ \E k \in 1..Len(refresh_tokens) :
          ~refresh_tokens[k].is_revoked /\ now = refresh_tokens[k].expires_at

\* An access token the gate lets through: decodable and of an active,
\* unlocked user.
PassesActiveGate(t) ==
    /\ t.type = "access" /\ now < t.exp
    /\ users[t.sub].is_active /\ ~Locked(t.sub)

OpenRows(uid) == {k \in 1..Len(refresh_tokens) :
                     refresh_tokens[k].user_id = uid /\ ~refresh_tokens[k].is_revoked}

\* C5: logout_all succeeds for whoever the gate lets through, leaves none of
\* that user's tokens non-revoked, changes no other row, and when the user
\* has no non-revoked token left (a second call) revokes zero and changes
\* nothing.
C5_LogoutAll ==
    [][\A t \in PresentableTokens :
          (PassesActiveGate(t) /\ IsLogoutAll /\ LogoutAll(t))
              => /\ resp'.status = 200
                 /\ Len(refresh_tokens') = Len(refresh_tokens)
                 /\ OpenRows(t.sub)' = {}
                 /\ \A k \in 1..Len(refresh_tokens) :
                        k \notin OpenRows(t.sub) => refresh_tokens'[k] = refresh_tokens[k]
                 /\ resp'.audit[1].n = Cardinality(OpenRows(t.sub))
                 /\ OpenRows(t.sub) = {} => refresh_tokens' = refresh_tokens]_vars

\* A logout-all has just revoked nothing, after an earlier one had revoked
\* that user's tokens, while another user's token is still open.
C5_Witness ==
    /\ resp.op = "logout_all" /\ resp.status = 200 /\ resp.audit[1].n = 0
    /\ \E u, v \in UserIds :
          /\ u # v
          /\ OpenRows(u) = {} /\ OpenRows(v) # {}
          /\ \E k \in 1..Len(refresh_tokens) : refresh_tokens[k].user_id = u

\* C6: a token whose type is not "access" never passes the current-user gate
\* (401, nothing revoked), and a token whose type is not "refresh" never
\* mints an access token (401).
C6_TokenTypesNotInterchangeable ==
    [][\A t \in PresentableTokens :
          /\ (t.type # "access" /\ IsLogoutAll /\ LogoutAll(t))
                 => (resp'.status = 401 /\ refresh_tokens' = refresh_tokens)
          /\ (t.type # "refresh" /\ IsRefresh /\ Refresh(t))
                 => (resp'.status = 401 /\ NoTokensIssued)]_vars

\* A decodable refresh token of an active user was just refused by the gate.
C6_Witness ==
    /\ resp.op = "logout_all" /\ resp.status = 401
    /\ resp.detail = "Invalid token type"
    /\ \E t \in RefreshTokenStrings : UsableRefreshToken(t)

\* C7: an inactive user gets no access: the right password is refused with
\* 403, a refresh token of theirs with 401, an unexpired access token of
\* theirs is refused by the active-user gate with 403; the gate also refuses
\* with 403 while the user is locked.
C7_InactiveOrLockedNoAccess ==
    [][\A i \in UserIds :
          /\ ~users[i].is_active =>
                /\ \A p \in Passwords :
                       (RightPassword(i, p) /\ IsLogin /\ Login(users[i].username, p))
                           => (resp'.status = 403 /\ NoTokensIssued)
                /\ \A t \in PresentableTokens :
                       (t.type = "refresh" /\ t.sub = i /\ IsRefresh /\ Refresh(t))
                           => (resp'.status = 401 /\ NoTokensIssued)
          /\ (~users[i].is_active \/ Locked(i)) =>
                \A t \in PresentableTokens :
                    (t.type = "access" /\ t.sub = i /\ now < t.exp /\ IsGetMe /\ GetMe(t))
                        => resp'.status = 403]_vars

\* A refresh was just refused because the owner of an otherwise usable token
\* is inactive.
C7_Witness ==
    /\ resp.op = "refresh" /\ resp.status = 401
    /\ resp.detail = "User not found or inactive"
    /\ \E k \in 1..Len(refresh_tokens) :
          /\ ~refresh_tokens[k].is_revoked /\ now < refresh_tokens[k].expires_at
          /\ ~users[refresh_tokens[k].user_id].is_active

\* What is stored of role r: its row, its permissions and its service links
RoleState(r) ==
    [role |-> roles[r],
     permissions |-> {rp \in role_permissions : rp[1] = r},
     links |-> {l \in role_service_accesses : l.role_id = r}]
\* The request would give role r another name or switch it off
RenamesOrDeactivates(r, u) ==
    \/ IsSome(u.name) /\ Val(u.name) # "" /\ Val(u.name) # roles[r].name
    \/ u.is_active = Some(FALSE)

\* C8: for a role with is_system = TRUE, every update_role request that would
\* rename it or set is_active to FALSE, and every delete_role request, fails
\* with 400, and the role's stored name, is_active flag, permissions and
\* service links are the same after the failed request as before it.
C8_SystemRoleProtected ==
    [][\A r \in DOMAIN roles :
          roles[r].is_system =>
             /\ \A u \in RoleUpdates :
                   (resp'.op = "update_role" /\ RenamesOrDeactivates(r, u)
                    /\ UpdateRole(1, r, u))
                   => /\ resp'.status = 400
                      /\ r \in DOMAIN roles'
                      /\ RoleState(r)' = RoleState(r)
             /\ (resp'.op = "delete_role" /\ DeleteRole(1, r))
                   => /\ resp'.status = 400
                      /\ r \in DOMAIN roles'
                      /\ RoleState(r)' = RoleState(r)]_vars

\* C8 witness: the system role, whose permissions and service link had been
\* changed by earlier allowed updates, has just refused a request with 400.
C8_Witness ==
    /\ resp.op \in {"update_role", "delete_role"}
    /\ resp.status = 400
    /\ roles[1].is_system
    /\ RoleState(1).permissions = {}
    /\ \E l \in RoleState(1).links : ~l.is_active

\* Permission pid is in some role's permission set
Attached(pid) == \E rp \in role_permissions : rp[2] = pid

\* C9: delete_permission fails with 400 and deletes nothing whenever the
\* permission is attached to at least one role; once no role holds it,
\* delete_permission succeeds and the permission row no longer exists.
C9_DeletePermission ==
    [][\A pid \in DOMAIN permissions :
          (resp'.op = "delete_permission" /\ DeletePermission(1, pid))
          => IF Attached(pid)
             THEN /\ resp'.status = 400
                  /\ permissions' = permissions
                  /\ role_permissions' = role_permissions
             ELSE /\ resp'.status = 204
                  /\ pid \notin DOMAIN permissions'
                  /\ DOMAIN permissions' = DOMAIN permissions \ {pid}]_vars

\* C9 witness: permission 1, held at first by the undeletable system role
\* only, has been deleted, which update_role had to detach it for.
C9_Witness ==
    /\ resp.op = "delete_permission"
    /\ resp.status = 204
    /\ 1 \notin DOMAIN permissions
    /\ 1 \in DOMAIN roles

\* Every requested name is the name of an active role
Resolves(names) ==
    \A n \in SeqToSet(names) :
        \E id \in DOMAIN roles : roles[id].name = n /\ roles[id].is_active
LinksOf(uid) == {l \in user_roles : l.user_id = uid}

\* C10: update_user_roles replaces the user's role links as a whole.  If every
\* requested name resolves to an active role, afterwards the user's roles are
\* exactly the requested names without duplicates, every link carries the
\* actor's id, and is_superuser is TRUE iff super_admin is among them; the
\* other users' links stay.  Otherwise the call fails with 404 and the user's
\* links and is_superuser are as before.
C10_UpdateUserRoles ==
    [][\A a \in UserIds, u \in UserIds, names \in RequestedNames :
          (resp'.op = "update_user_roles" /\ UpdateUserRoles(a, u, names))
          => IF Resolves(names)
             THEN /\ resp'.status = 200
                  /\ {roles[l.role_id].name : l \in LinksOf(u)'} = SeqToSet(names)
                  /\ Cardinality(LinksOf(u)') = Cardinality(SeqToSet(names))
                  /\ \A l \in LinksOf(u)' : l.assigned_by = Some(a)
                  /\ users'[u].is_superuser = ("super_admin" \in SeqToSet(names))
                  /\ \A o \in UserIds \ {u} : LinksOf(o)' = LinksOf(o)
             ELSE /\ resp'.status = 404
                  /\ LinksOf(u)' = LinksOf(u)
                  /\ users'[u].is_superuser = users[u].is_superuser]_vars

\* C10 witness: bob's roles have been replaced by super_admin alone on bob's
\* own request, and admin's by a set without super_admin.
C10_Witness ==
    /\ resp.op = "update_user_roles"
    /\ resp.status = 200
    /\ LinksOf(2) = {[user_id |-> 2, role_id |-> 1, assigned_by |-> Some(2)]}
    /\ users[2].is_superuser
    /\ ~users[1].is_superuser


\* The operations that write through one service method of the user and role
\* services
WritingOps == {"create_role", "update_role", "delete_role", "update_user_roles",
               "admin_update_user"}

\* C11: every service-layer operation commits its writes as one unit: whenever
\* create_role, update_role, update_user_roles or admin_update_user ends in an
\* error, no table differs from what it was before the request; in particular
\* an admin_update_user request with profile fields and a role list that
\* fails role resolution (404) leaves the profile fields unchanged.
C11_ErrorLeavesNoWrites ==
    [][(resp'.op \in WritingOps /\ resp'.status >= 400)
          => UNCHANGED <<users, refresh_tokens, rbacTables>>]_vars

\* C11 witness: an admin_update_user request has ended in 404 for its roles
\* and bob's profile carries the full name and the deactivation it sent.
C11_Witness ==
    /\ resp.op = "admin_update_user"
    /\ resp.status = 404
    /\ resp.detail = "Roles not found or inactive"
    /\ users[2].full_name = Some("Bob B.")
    /\ ~users[2].is_active
    /\ LinksOf(2) = {}


\* Request r of a client lost a race: it passed its pre-check, and by the time
\* of its INSERT the unique key is taken
LostRace(r) == r \in inflight /\ unique_violation(r.op, r.payload)

\* C12: when two concurrent requests both pass the uniqueness pre-check and
\* then insert the same unique key, the losing request's integrity violation
\* is caught, rolled back and answered 409, and its row is not persisted.
C12_RaceLoserGetsConflict ==
    [][\A c \in Clients :
          \A r \in inflight :
             (r.client = c /\ LostRace(r) /\ Commit(c))
             => /\ resp'.status = 409
                /\ UNCHANGED <<core, shared, login_failures, scopes, cameras, events>>]_vars

\* C12 witness: two registrations of carol passed the pre-check; one row is
\* stored and the other request has ended in 500.
C12_Witness ==
    /\ resp.op = "register_user"
    /\ resp.status = 500
    /\ inflight = {}
    /\ Cardinality({i \in DOMAIN users : users[i].email = "carol@example.com"}) = 1


\* The email or the username of the payload belongs to an existing user
AlreadyRegistered(d) ==
    \E i \in DOMAIN users : users[i].email = d.email \/ users[i].username = d.username

\* C13: registration with an email or a username of an existing user is
\* rejected with 409 and creates no user; otherwise exactly one user is
\* created, with is_active TRUE, is_verified FALSE and is_superuser FALSE.
C13_Registration ==
    [][\A d \in RegisterPayloads :
          (resp'.op = "register_user" /\ RegisterUser(d))
          => IF AlreadyRegistered(d)
             THEN resp'.status = 409 /\ users' = users
             ELSE /\ resp'.status = 201
                  /\ \E id \in DOMAIN users' \ DOMAIN users :
                        /\ DOMAIN users' = DOMAIN users \cup {id}
                        /\ users'[id].email = d.email
                        /\ users'[id].username = d.username
                        /\ users'[id].is_active
                        /\ ~users'[id].is_verified
                        /\ ~users'[id].is_superuser
                  /\ \A i \in DOMAIN users : users'[i] = users[i]]_vars

\* C13 witness: carol is registered, and a later registration under an email
\* in use has been refused with 400.
C13_Witness ==
    /\ resp.op = "register_user"
    /\ resp.status = 400
    /\ resp.detail = "Email already registered"
    /\ \E i \in DOMAIN users : users[i].username = "carol" /\ ~users[i].is_verified


\* No two camera rows share a MAC, and no two share a non-null IP address
UniqueCameras ==
    \A i, j \in DOMAIN cameras :
        i # j => /\ cameras[i].mac # cameras[j].mac
                 /\ IsSome(cameras[i].ipaddress) => cameras[i].ipaddress # cameras[j].ipaddress
\* The payload's MAC, or its non-null IP address, is that of an existing camera
DuplicateCamera(p) ==
    \E i \in DOMAIN cameras :
        cameras[i].mac = p.mac \/ (IsSome(p.ipaddress) /\ cameras[i].ipaddress = p.ipaddress)

\* C14: after any sequence of camera create and update requests no two
\* camera rows share a MAC and no two share a non-null IP address; a create
\* request whose MAC, or whose non-null IP address, equals an existing
\* camera's is rejected with 409 and persists nothing, whatever its other
\* fields are.
C14_CameraUniqueness ==
    /\ []UniqueCameras
    /\ [][\A p \in CameraCreates :
             (resp'.op = "create_camera" /\ DuplicateCamera(p) /\ CreateCamera(p))
             => resp'.status = 409 /\ cameras' = cameras]_vars

\* C14 witness: a camera with the empty string as its address is stored, and
\* a create request has ended in 500.
C14_Witness ==
    /\ resp.op = "create_camera"
    /\ resp.status = 500
    /\ \E i \in DOMAIN cameras : cameras[i].ipaddress = Some("")
    /\ UniqueCameras


\* ---------------------------------------------------------------- C15
\* The cameras the claimed priority order resolves a payload to: the
\* existing camera named by a positive camera_id; else the camera whose
\* ipaddress equals the device IP; else the cameras whose device_name equals
\* the device name.
ExpectedCameras(p) ==
    LET ids == {i \in DOMAIN cameras : p.camera_id = Some(i)}
        ips == {i \in DOMAIN cameras : cameras[i].ipaddress = Some(p.device_ip)}
        names == {i \in DOMAIN cameras : cameras[i].device_name = Some(p.device_name)}
    IN IF ids # {} THEN ids ELSE IF ips # {} THEN ips ELSE names

DuplicateEvent(p) == \E k \in DOMAIN events : events[k].event_uid = p.event_id

\* C15: an ingested event is stored under the camera chosen by strict
\* priority (existing positive camera_id, then device IP, then device name),
\* and when none of the three resolves the request is answered 404 and no
\* event or sub-event row is stored.
C15_CameraResolution ==
    [][\A p \in ResolvePayloads :
        (resp'.op = "create_event" /\ ~DuplicateEvent(p) /\ CreateEvent(p)) =>
            IF ExpectedCameras(p) = {}
            THEN resp'.status = 404 /\ events' = events
            ELSE /\ resp'.status = 201
                 /\ Len(events') = Len(events) + 1
                 /\ events'[Len(events')].camera_id \in ExpectedCameras(p)]_vars

\* An event was stored under the camera its camera_id names although its
\* device IP is the address of another camera.
C15_Witness ==
    \E k \in DOMAIN events :
        \E i \in DOMAIN cameras :
            /\ i # events[k].camera_id
            /\ cameras[i].ipaddress = Some(events[k].device_ip)
            /\ events[k].sub_events # {}


\* ---------------------------------------------------------------- C16
OnlyXY(p) == IsSome(p.plate_roi) /\ DOMAIN Val(p.plate_roi) = {"X", "Y"}

\* C16: an event whose PlateROI gives only X and Y is accepted and stored
\* with all four plate_roi columns null, and its read projection has no
\* plate_roi.
C16_PartialRoiStored ==
    [][\A p \in RoiPayloads :
        (resp'.op = "create_event" /\ OnlyXY(p) /\ resolve_camera_id(p) # None
         /\ ~DuplicateEvent(p) /\ CreateEvent(p)) =>
            /\ resp'.status = 201
            /\ Len(events') = Len(events) + 1
            /\ \A k \in {"x", "y", "width", "height"} :
                   events'[Len(events')].plate_roi[k] = None
            /\ to_read_schema(events'[Len(events')]).plate_roi = None]_vars

\* An event with only X and Y was refused by request validation while its
\* camera resolves, and an event with a whole box is stored.
C16_Witness ==
    /\ resp.op = "create_event"
    /\ resp.status = 422
    /\ cameras # <<>>
    /\ \E k \in DOMAIN events : to_read_schema(events[k]).plate_roi # None


\* ---------------------------------------------------------------- C17
\* The headers the id is looked for in, in the claimed order
IdHeaders == <<correlation_header>> \o CorrelationHeaders

\* The first non-empty value among IdHeaders, if any
FirstHeaderId(h) ==
    LET filled == {i \in DOMAIN IdHeaders :
                      IdHeaders[i] \in DOMAIN h /\ h[IdHeaders[i]] # ""}
    IN IF filled = {} THEN None
       ELSE Some(h[IdHeaders[CHOOSE i \in filled : \A j \in filled : i <= j]])

GeneratedIds == {service_name \o "-" \o u : u \in Uuids}

\* C17: the correlation id of a request is the first non-empty of the
\* configured correlation header, x-correlation-id, x-request-id and
\* traceparent, else a generated id prefixed with the service name; a
\* returned response carries it in the correlation header unless the handler
\* set that header itself, and every audit event emitted during the request
\* carries it as correlation_id.
C17_CorrelationId ==
    [][/\ (request = None /\ request' # None) =>
              IF FirstHeaderId(Val(request').headers) # None
              THEN Val(request').correlation_id = Val(FirstHeaderId(Val(request').headers))
              ELSE Val(request').correlation_id \in GeneratedIds
       /\ (request # None /\ request' = None) =>
              \A own \in {None, Some("H1")} :
                  CallNextReturns(200, own) =>
                      outcome'.correlation_header =
                          IF own # None THEN own ELSE Some(Val(request).correlation_id)
       /\ (request # None /\ request' # None) =>
              \A a \in {"auth.login"} :
                  RecordEvent(a) =>
                      /\ delivered' # <<>>
                      /\ \A i \in DOMAIN delivered' :
                            delivered'[i][2].correlation_id
                                = Some(Val(request).correlation_id)]_vars

\* A request that carries x-request-id and an empty x-correlation-id took
\* the x-request-id value as its id, and an audit event emitted during it
\* carries that id.
C17_Witness ==
    /\ request # None
    /\ get(Val(request).headers, "x-correlation-id") = Some("")
    /\ "x-trace-id" \notin DOMAIN Val(request).headers
    /\ Val(request).correlation_id = "R1"
    /\ delivered # <<>>
    /\ delivered[1][2].correlation_id = Some("R1")
    /\ delivered[1][2].actor_id = Some("1")


\* ---------------------------------------------------------------- C18
\* What one request alone puts into the context when dispatch begins
OwnContext(r) ==
    LET from_headers == {<<"x-tenant-id", "tenant_id">>, <<"x-request-id", "request_id">>,
                         <<"traceparent", "traceparent">>}
        keys == {"correlation_id", "request_path"}
                \cup {p[2] : p \in {q \in from_headers : q[1] \in DOMAIN r.headers}}
    IN [k \in keys |->
          IF k = "correlation_id" THEN r.correlation_id
          ELSE IF k = "request_path" THEN r.path
          ELSE r.headers[(CHOOSE p \in from_headers : p[2] = k)[1]]]

\* C18: nothing of an earlier request is in the logging context of a later
\* one: the context is emptied before a request's values are bound and again
\* once the handler has returned or raised, and an exception of the handler
\* leaves dispatch as it was raised, after the failure has been logged.
C18_ContextNeverLeaks ==
    /\ [](request = None => log_context = EmptyContext)
    /\ [][/\ (request = None /\ request' # None) =>
                 log_context' = OwnContext(Val(request'))
          /\ (request # None /\ request' = None) =>
                 /\ log_context' = EmptyContext
                 /\ \A e \in Exceptions :
                        CallNextRaises(e) =>
                            /\ outcome'.kind = "raised"
                            /\ outcome'.exception = Some(e)
                            /\ ~should_skip(Val(request).path) =>
                                   /\ outcome'.log # None
                                   /\ Val(outcome'.log).level = "ERROR"
                                   /\ Val(outcome'.log).exception = Some(e)]_vars

\* A request whose handler bound a user has ended in an exception, and the
\* next request, sent without a tenant or request id, is inside its handler.
C18_Witness ==
    /\ request # None
    /\ DOMAIN log_context = {"correlation_id", "request_path"}
    /\ delivered # <<>>
    /\ delivered[Len(delivered)][2].actor_id = Some("1")
    /\ sinks # <<>>


\* ---------------------------------------------------------------- C19
\* The sinks called by the last record_event, in call order
Called == [i \in DOMAIN delivered |-> delivered[i][1]]

\* C19: record_event never raises, whatever sinks are registered, one that
\* raises included; with no sink registered the event goes to the default
\* sink only, and with sinks registered every one of them receives the event,
\* in registration order, and the default sink is not called.
C19_RecordEventNeverRaises ==
    [][\A a \in {"auth.login", "role.create"} :
          RecordEvent(a) =>
              /\ sink_error' = None
              /\ \A i \in DOMAIN delivered' : delivered'[i][2].action = a
              /\ [i \in DOMAIN delivered' |-> delivered'[i][1]]
                    = IF sinks = <<>> THEN <<"_default_sink">> ELSE sinks]_vars

\* Of two registered sinks the first raised when called: its exception came
\* out of record_event and the second sink was never called.
C19_Witness ==
    /\ Len(sinks) = 2
    /\ raises(sinks[1])
    /\ ~raises(sinks[2])
    /\ Called = <<sinks[1]>>
    /\ sink_error = Some("SinkError")


\* ---------------------------------------------------------------- C20
\* C20: whatever the database held, once the seed command has run the table
\* of permissions has each of the 17 catalog names exactly once, the roles
\* super_admin, admin, operator and viewer exist exactly once each, and
\* running the command again changes no permission, no role and no
\* role-to-permission assignment.
C20_SeedIdempotent ==
    [][Seed =>
          /\ \A i \in DOMAIN PermissionCatalog :
                Cardinality({id \in DOMAIN permissions' :
                                permissions'[id].name = PermissionCatalog[i]}) = 1
          /\ \A name \in {"super_admin", "admin", "operator", "viewer"} :
                Cardinality({id \in DOMAIN roles' : roles'[id].name = name}) = 1
          /\ seed_permissions(permissions') = permissions'
          /\ seed_roles(roles', next_role_id') = roles'
          /\ seed_role_permissions(permissions', roles', role_permissions')
                = role_permissions']_vars

\* The command has run on a database that already held a permission outside
\* the catalog, an inactive catalog permission and a role named admin: all 17
\* names are there beside the extra one, and the old admin role now holds
\* its 13 permissions.
C20_Witness ==
    /\ Cardinality(DOMAIN permissions) = Len(PermissionCatalog) + 1
    /\ \E id \in DOMAIN roles :
          /\ roles[id].name = "admin"
          /\ ~roles[id].is_system
          /\ Cardinality({rp \in role_permissions : rp[1] = id}) = 13
    /\ \E id \in DOMAIN roles :
          /\ roles[id].name = "super_admin"
          /\ Cardinality({rp \in role_permissions : rp[1] = id})
                = Cardinality(DOMAIN permissions)


\* ---------------------------------------------------------------- C21
\* The service ids a list of entries asks for, the links of a role, and the
\* services that cannot be linked
Desired(acc) == {acc[k].service_id : k \in DOMAIN acc}
LinksOfRole(links, r) == {l \in links : l.role_id = r}
Unavailable == {id \in 1..3 : id \notin DOMAIN services \/ ~services[id].is_active}
TwiceNew(acc, r) ==
    \E j, k \in DOMAIN acc :
        /\ j < k
        /\ acc[j].service_id = acc[k].service_id
        /\ acc[j].service_id \notin {l.service_id : l \in LinksOfRole(role_service_accesses, r)}

\* The role's links match the list: one link per desired service, carrying
\* the access level and is_active of the last entry for it; the links of
\* other roles are as before.
Reconciled(acc, r) ==
    /\ resp'.status = 200
    /\ {l.service_id : l \in LinksOfRole(role_service_accesses', r)} = Desired(acc)
    /\ Cardinality(LinksOfRole(role_service_accesses', r)) = Cardinality(Desired(acc))
    /\ \A l \in LinksOfRole(role_service_accesses', r) :
          \E k \in DOMAIN acc :
             /\ acc[k].service_id = l.service_id
             /\ acc[k].access_level = l.access_level
             /\ acc[k].is_active = l.is_active
             /\ \A j \in (k + 1)..Len(acc) : acc[j].service_id # l.service_id
    /\ {l \in role_service_accesses' : l.role_id # r}
          = {l \in role_service_accesses : l.role_id # r}
Refused(status) == resp'.status = status /\ UNCHANGED rbacTables

C22_LostUpdate ==
    /\ [](\A u \in UserIds : users[u].failed_login_attempts <= login_failures[u])
    /\ [][\A c \in Clients : \A r \in inflight :
             (r.client = c /\ r.op = "login" /\ CommitFailedLogin(c)) =>
                 /\ users'[r.payload.id].failed_login_attempts
                       = r.payload.user.failed_login_attempts + 1
                 /\ login_failures'[r.payload.id] = login_failures[r.payload.id] + 1
                 /\ resp'.status = 401]_vars

\* Bob has been answered more than 5 wrong-password logins, no login is in
\* flight, and his counter is below 5 and his account is not locked.
C22_Witness ==
    /\ inflight = {}
    /\ login_failures[2] > LOCK_THRESHOLD
    /\ users[2].failed_login_attempts < LOCK_THRESHOLD
    /\ users[2].locked_until = None


\* ---------------------------------------------------------------- C24
\* C24: entering scoped_context makes the context the prior context overlaid
\* with the supplied fields, fields given as None being absent, and leaving
\* it, by return or by exception, makes the context the one that was active
\* when that scope was entered, whatever update_logging_context and
\* clear_context did inside.
Entered == Len(scopes'.tokens) = Len(scopes.tokens) + 1
Left == Len(scopes'.tokens) = Len(scopes.tokens) - 1
Innermost == scopes.tokens[Len(scopes.tokens)]

C24_ScopeRestores ==
    [][/\ Entered =>
            /\ scopes'.tokens[Len(scopes'.tokens)] = log_context
            /\ \E kw \in ScopeFields :
                  /\ DOMAIN log_context' =
                        (DOMAIN log_context \ DOMAIN kw)
                           \cup {k \in DOMAIN kw : kw[k] # None}
                  /\ \A k \in DOMAIN log_context' :
                        log_context'[k] = IF k \in DOMAIN kw THEN Val(kw[k])
                                          ELSE log_context[k]
       /\ Left =>
            /\ log_context' = Innermost
            /\ SubSeq(scopes.tokens, 1, Len(scopes'.tokens)) = scopes'.tokens]_vars

\* A scope entered with a non-empty context has been left by an exception
\* after both update_logging_context and clear_context ran inside it, no
\* scope is open, and the context is not empty.
C24_Witness ==
    /\ scopes.tokens = <<>>
    /\ scopes.raised
    /\ scopes.inside = {"update_logging_context", "clear_context"}
    /\ log_context # EmptyContext


\* ---------------------------------------------------------------- C23
\* C23: a login with the right password by an active user whose lock, if
\* any, has passed succeeds, sets failed_login_attempts to 0 and locked_until
\* to null and adds exactly one refresh-token row, not revoked, expiring
\* REFRESH_TOKEN_EXPIRE_DAYS later; a step that lowers a user's counter or
\* clears a lock is such a login; a login with an unknown username changes
\* no user's counter or lock.
LockPassed(i) == users[i].locked_until = None \/ Val(users[i].locked_until) <= now
CounterReset(i) ==
    \/ users'[i].failed_login_attempts < users[i].failed_login_attempts
    \/ users[i].locked_until # None /\ users'[i].locked_until = None

C25_LockMatchesCounter ==
    \A i \in DOMAIN users :
        /\ users[i].locked_until # None
              => users[i].failed_login_attempts >= LOCK_THRESHOLD
        /\ users[i].failed_login_attempts = 0 => users[i].locked_until = None

\* No login is in flight, and bob is locked with a counter below 5: a login
\* that had read the counter earlier committed after the one that locked him.
C25_Witness ==
    /\ inflight = {}
    /\ users[2].locked_until # None
    /\ users[2].failed_login_attempts < LOCK_THRESHOLD


\* ---------------------------------------------------------------- C26
\* C26: the passing of time never changes failed_login_attempts; a login
\* with a wrong password is answered 401 whether or not the account is
\* locked, adds one to the counter and, the counter then being >= 5, sets
\* locked_until to now + 30 minutes: made while the lock runs it moves the
\* lock's end, made after the lock has run out with the counter still >= 5
\* it locks the account again at once.
LockRuns(i) == users[i].locked_until # None /\ Val(users[i].locked_until) > now
LockRanOut(i) == users[i].locked_until # None /\ Val(users[i].locked_until) <= now

C26_RelockWithoutReset ==
    [][/\ now' # now =>
             \A i \in UserIds :
                 users'[i].failed_login_attempts = users[i].failed_login_attempts
       /\ (Login(UsernameOf(2), "Wrong4567") /\ (LockRuns(2) \/ LockRanOut(2)))
             => /\ resp'.status = 401
                /\ users[2].failed_login_attempts >= LOCK_THRESHOLD
                /\ users'[2].failed_login_attempts = users[2].failed_login_attempts + 1
                /\ users'[2].locked_until = Some(now + LOCK_MINUTES)
                /\ LockRuns(2)']_vars

\* Bob's sixth wrong password in a row came after the clock had moved, when
\* his lock had been set earlier: the lock now ends 30 minutes from now.
C26_Witness ==
    /\ resp.op = "login" /\ resp.status = 401
    /\ now > 0
    /\ users[2].failed_login_attempts = LOCK_THRESHOLD + 1
    /\ users[2].locked_until = Some(now + LOCK_MINUTES)


\* ---------------------------------------------------------------- C27
\* C27: in every reachable state a refresh-token row has revoked_at set
\* exactly when is_revoked is true; no step changes or removes a revoked
\* row; logout(T) succeeds exactly when T has a non-revoked row, changes no
\* row but that one, leaves T without a non-revoked row, and when T has none
\* (a second call) is refused and changes nothing.
IsLogout == resp'.op = "logout"
OpenRowOf(t) == {k \in 1..Len(refresh_tokens) :
                    refresh_tokens[k].token = t /\ ~refresh_tokens[k].is_revoked}

C27_RevocationMonotonic ==
    /\ [](\A k \in 1..Len(refresh_tokens) :
             (refresh_tokens[k].revoked_at # None) <=> refresh_tokens[k].is_revoked)
    /\ [][/\ Len(refresh_tokens') >= Len(refresh_tokens)
          /\ \A k \in 1..Len(refresh_tokens) :
                refresh_tokens[k].is_revoked => refresh_tokens'[k] = refresh_tokens[k]
          /\ \A t \in PresentableTokens :
                (IsLogout /\ Logout(t))
                   => /\ (resp'.status = 200) <=> (OpenRowOf(t) # {})
                      /\ OpenRowOf(t) = {}
                            => (resp'.status = 400 /\ refresh_tokens' = refresh_tokens)
                      /\ Len(refresh_tokens') = Len(refresh_tokens)
                      /\ \A k \in 1..Len(refresh_tokens) :
                            IF k \in OpenRowOf(t)
                            THEN /\ refresh_tokens'[k].is_revoked
                                 /\ refresh_tokens'[k].revoked_at = Some(now)
                            ELSE refresh_tokens'[k] = refresh_tokens[k]
                      /\ OpenRowOf(t)' = {}]_vars

\* A logout has just been refused at a later time than the one at which a
\* row was revoked, and that row still carries its first revocation time;
\* another row is not revoked.
C27_Witness ==
    /\ resp.op = "logout" /\ resp.status = 400
    /\ \E k, j \in 1..Len(refresh_tokens) :
          /\ refresh_tokens[k].is_revoked
          /\ refresh_tokens[k].revoked_at # Some(now)
          /\ ~refresh_tokens[j].is_revoked


\* ---------------------------------------------------------------- C30
\* C30: a change_password request changes nothing but the caller's
\* hashed_password and password_changed_at; with a wrong current password
\* it is answered 400 and changes nothing; a successful one stores the hash
\* of the new password, leaves every refresh-token row as it was, and every
\* refresh token that was usable before is usable after and is accepted by
\* refresh_access_token.
IsChangePassword == resp'.op = "change_password"
SameButPassword(i) ==
    [users'[i] EXCEPT !.hashed_password = users[i].hashed_password,
                      !.password_changed_at = users[i].password_changed_at] = users[i]

C30_PasswordChangeKeepsTokens ==
    [][/\ \A t \in HeldAccessTokens, p \in Passwords :
             (IsChangePassword /\ ChangePassword(t, p, NewPassword))
                => /\ DOMAIN users' = DOMAIN users
                   /\ \A i \in DOMAIN users : SameButPassword(i)
                   /\ refresh_tokens' = refresh_tokens
                   /\ UNCHANGED <<now, client_access, rbacTables>>
                   /\ \A r \in RefreshTokenStrings :
                         UsableRefreshToken(r) => UsableRefreshToken(r)'
                   /\ PassesActiveGate(t)
                         => IF RightPassword(t.sub, p)
                            THEN /\ resp'.status = 200
                                 /\ users'[t.sub].hashed_password
                                       = get_password_hash(NewPassword)
                                 /\ users'[t.sub].password_changed_at = Some(now)
                                 /\ \A i \in DOMAIN users :
                                       i # t.sub => users'[i] = users[i]
                            ELSE /\ resp'.status = 400
                                 /\ users' = users
       /\ \A t \in RefreshTokenStrings :
             (IsRefresh /\ Refresh(t) /\ UsableRefreshToken(t)
                /\ users[t.sub].hashed_password = get_password_hash(NewPassword))
                => resp'.status = 200]_vars

\* Bob's refresh token, issued under his old password, has just been
\* accepted after he changed his password.
C30_Witness ==
    /\ resp.op = "refresh" /\ resp.status = 200
    /\ resp.refresh_token[1].sub = 2
    /\ users[2].hashed_password = get_password_hash(NewPassword)


\* ---------------------------------------------------------------- C28
\* C28: an active, unlocked user who holds the role:write permission can,
\* through PUT /users/{id}/roles, and one who holds the admin or super_admin
\* role or is a superuser can, through PATCH /users/{id} with roles, give
\* the super_admin role to any user, themself included; the request
\* succeeds, the target's is_superuser becomes true, and the target passes
\* the superuser gate when active and not locked.
OnlySuperAdmin == <<"super_admin">>
Escalated(u) ==
    /\ resp.status = 200
    /\ users[u].is_superuser
    /\ has_role(u, "super_admin")
    /\ (users[u].is_active /\ ~Locked(u))
          => require_superuser(create_access_token(u)) = {GatePass(u)}

C28_UnboundedRoleAssignment ==
    [][\A t \in HeldAccessTokens, u \in UserIds :
          /\ (/\ PutUserRoles(t, u, OnlySuperAdmin)
              /\ PassesActiveGate(t)
              /\ has_permission(t.sub, "role:write"))
                => Escalated(u)'
          /\ (/\ AdminUpdateUser(t, u, AdminData(None, None, Some(OnlySuperAdmin)))
              /\ PassesActiveGate(t)
              /\ (has_role(t.sub, "admin") \/ has_role(t.sub, "super_admin")
                    \/ users[t.sub].is_superuser))
                => Escalated(u)']_vars

\* Bob gave himself the super_admin role and took the seeded
\* administrator's away; a request behind the superuser gate has just been
\* served, which only bob's token could have passed.
C28_Witness ==
    /\ [user_id |-> 2, role_id |-> 1, assigned_by |-> Some(2)] \in user_roles
    /\ users[2].is_superuser
    /\ ~users[1].is_superuser /\ ~has_role(1, "super_admin")
    /\ resp.op = "list_services" /\ resp.status = 200


\* ---------------------------------------------------------------- C29
\* C29: the outcome of the role, permission, superuser and
\* admin-or-superuser gates for every user is the same before and after an
\* update_role or update_permission request that switches an is_active;
\* and a step that leaves the users' role links and the roles' permission
\* links as they were takes no gate away from a user who passed it.
GateRoles == {"super_admin", "admin", "analyst"}
GatePermissions == {"role:write", "anpr:read"}
GateOutcomes(u) ==
    LET t == create_access_token(u)
    IN [role |-> [n \in GateRoles |-> require_role(t, n)],
        permission |-> [n \in GatePermissions |-> require_permission(t, n)],
        superuser |-> require_superuser(t),
        admin_or_superuser |-> require_admin_or_superuser(t)]
Passed(u) ==
    LET o == GateOutcomes(u)
    IN {<<"role", n>> : n \in {m \in GateRoles : o.role[m] = {GatePass(u)}}}
       \cup {<<"permission", n>> :
                n \in {m \in GatePermissions : o.permission[m] = {GatePass(u)}}}
       \cup (IF o.superuser = {GatePass(u)} THEN {<<"superuser", "">>} ELSE {})
       \cup (IF o.admin_or_superuser = {GatePass(u)}
             THEN {<<"admin_or_superuser", "">>} ELSE {})
ActivitySwitched ==
    \/ \E r \in DOMAIN roles : roles'[r].is_active # roles[r].is_active
    \/ \E id \in DOMAIN permissions :
          permissions'[id].is_active # permissions[id].is_active

C29_GatesIgnoreIsActive ==
    [][/\ ActivitySwitched => \A u \in UserIds : GateOutcomes(u)' = GateOutcomes(u)
       /\ \/ user_roles' # user_roles
          \/ role_permissions' # role_permissions
          \/ UNCHANGED <<roles, permissions, users, now>>
          \/ \A u \in UserIds : Passed(u) \subseteq Passed(u)']_vars

\* Bob's only role is the custom one; it and the permission role:write have
\* been switched off, and after that bob's request to replace the
\* administrator's roles passed the role:write gate and was carried out.
C29_Witness ==
    /\ resp.op = "update_user_roles" /\ resp.status = 200
    /\ ~roles[3].is_active /\ ~permissions[1].is_active
    /\ {l \in user_roles : l.user_id = 2}
          = {[user_id |-> 2, role_id |-> 3, assigned_by |-> Some(1)]}
    /\ [user_id |-> 1, role_id |-> 2, assigned_by |-> Some(2)] \in user_roles

=============================================================================
